---- MODULE Spec2Model ----
(***************************************************************************)
(* Realtime speech loop of vrchat_eidolon.                                 *)
(*                                                                         *)
(*   Spec     one realtime session: the receive loop of                    *)
(*            QwenRealtimeClient._run_one_session, the barge-in path, the   *)
(*            play-start observer and the playback sink with its device    *)
(*            callback (llm/qwen_realtime.py, io/audio_out.py).            *)
(*   SupSpec  run_speech_loop and QwenRealtimeClient.run: resource scopes, *)
(*            the session task group, rotation, backoff and cancellation   *)
(*            (runtime/speech_loop.py, llm/qwen_realtime.py,               *)
(*            io/loopback_in.py, io/audio_in.py).                          *)
(*   CapSpec  the capture queue and the sender task                        *)
(*            (io/audio_in.py, io/loopback_in.py, llm/qwen_realtime.py).   *)
(*   SinkSpec, PlaySpec  the playback sink on its own, without and with    *)
(*            the record of the bytes played (io/audio_out.py).            *)
(*   TurnSpec one turn of the session under weak fairness.                 *)
(*   AlignSpec the receive loop with numbered audio bytes; WarnSpec the    *)
(*            same loop fed with deltas that are not sample aligned;       *)
(*            CutSpec the same loop with the barge-in flush recorded.      *)
(*   InfoSpec, MarkSpec  the session of Spec with the events that are only *)
(*            logged, and with the record of what each signalling device   *)
(*            callback had taken.                                          *)
(*   WireSpec send_lock and the callers of _send (llm/qwen_realtime.py).   *)
(*   LoopSpec ProcessLoopbackInput._pump and float32le_to_pcm16le          *)
(*            (io/loopback_in.py).                                         *)
(*   ConvSpec PcmRateConverter (io/rate_convert.py).                       *)
(*   EvSpec   the event ids of the outbound events.                        *)
(*   VadSpec  EnergyVadSegmenter (src/audio/vad.py).                       *)
(*   PolSpec  ToolPolicy and RateLimiter (src/eidolon_mcp/policy.py).      *)
(*                                                                         *)
(* Times are integer milliseconds of the monotonic clock.                  *)
(***************************************************************************)
EXTENDS Integers, Sequences, FiniteSets, TLC

\* ------------------------------------------------------------------ bounds
MaxTicks     == 1    \* clock ticks of TickMs explored in one session
MaxBufBytes  == 4    \* bytes the playback buffer may hold
MaxReceived  == 4    \* inbound messages explored in one session
MaxFailures  == 7    \* failed sessions explored in one run()
SessionMaxAgeS == 2  \* cfg.session_max_age_s, in seconds of session age
MaxProduced    == 4  \* chunks the capture produces
QueueMaxChunks == 2  \* cfg.queue_max_chunks
FramesPerChunk == 3  \* frames_per_chunk, blocksize
MaxEpoch       == 4  \* play epochs the sink issues on its own
MaxConvSamples == 4  \* samples in one chunk passed to a converter
MaxChannels    == 2  \* channel counts tried go one beyond the supported 2
MaxEvents      == 4  \* outbound events of one session
MaxSuffixes    == 2  \* values random.randint is seen to return
MaxPushes      == 3  \* blocks pushed into one segmenter
MaxPolTime     == 4  \* last reading of the policy's clock, in ticks
MaxPlayBytes   == 6  \* bytes appended to the sink of PlaySpec
MaxWarnBufBytes == 8 \* bytes the playback buffer may hold in WarnSpec
MaxLoopBytes   == 17 \* raw bytes the loopback capture delivers
MaxSends       == 12 \* calls of _send in one session
MaxBargeIns    == 4  \* barge-ins past the debounce in one session

\* --------------------------------------------------------------- constants
None            == "None"      \* Python None for an id
Unbound         == "Unbound"   \* a local name that was never assigned
NoneMs          == -1          \* Python None for a timestamp
NoEpoch         == 0           \* Python None for a play epoch
RandMin         == 1000        \* random.randint(1000, 9999)
StartMs         == 1000        \* monotonic clock when the session starts
TickMs          == 400         \* granularity of the modelled clock
DebounceMs      == 400         \* now - last_cancel_ms < 400
AudibleWithinMs == 400         \* is_audible(within_ms=400)
BytesPerSample  == 2           \* bytes_per_sample = 2
OutputChannels  == 1           \* cfg.output_channels (wire)
SinkChannels    == 1           \* AudioOutputConfig.channels (device)

ResponseIds == {"R1", "R2"}
TurnIds     == {"T1", "T2"}

VARIABLES
    \* ---- one session (Spec)
    now,                    \* monotonic_ms()
    session,                \* "running" | "failed": the receive loop
    active_response_id,     \* the variable of _run_one_session
    recv_active_response_id,\* the local of the same name inside _receiver
    cancelled_response_ids,
    last_cancel_ms,
    turns,                  \* turn id -> TurnTtfa
    epoch_to_turn,          \* play epoch -> turn id
    pcm_tail,               \* alignment buffer of _receiver
    misaligned_chunks,
    sent,                   \* outbound events of the session, in order
    received,               \* messages the receive loop has taken
    audio_out,              \* AudioOutputSink
    cb,                     \* position of the device callback (audio thread)
    \* ---- history of the session, for the statements below
    open_responses,         \* response.created seen, response.done not yet
    barge                   \* history: the last cancellation attempts, the
                            \* epoch counter at the last barge-in flush, and
                            \* whether a marker older than it was observed

sessVars == <<now, session, active_response_id, recv_active_response_id,
              cancelled_response_ids, last_cancel_ms, turns, epoch_to_turn,
              pcm_tail, misaligned_chunks, sent, received, audio_out,
              cb, open_responses, barge>>

VARIABLES
    \* ---- run_speech_loop and QwenRealtimeClient.run (SupSpec)
    cfg,            \* the configuration run_speech_loop was given
    loop_pc,        \* position of run_speech_loop
    loop_exc,       \* exception run_speech_loop is unwinding with
    in_stream,      \* AudioInput._stream (microphone)
    cap,            \* ProcessLoopbackInput._cap
    pump_task,      \* ProcessLoopbackInput._pump_task
    out_stream,     \* AudioOutputSink._stream
    ws,             \* the websocket of the current session
    close_code,     \* code the websocket was closed with by this side
    sup_pc,         \* position of QwenRealtimeClient.run
    tg,             \* the four tasks of the session's TaskGroup
    backoff_ms,     \* backoff_s
    sleep_ms,       \* argument of the current or last asyncio.sleep
    age_s,          \* age of the current or last session
    \* ---- history of the supervisor, for the statements below
    failures,       \* sessions ended by an exception since run() began
    ended_by,       \* how the last session ended
    cancel          \* external cancellation: "none" | "delivered"

supVars == <<cfg, loop_pc, loop_exc, in_stream, cap, pump_task, out_stream,
             ws, close_code, sup_pc, tg, backoff_ms, sleep_ms, age_s,
             failures, ended_by, cancel>>

VARIABLES
    \* ---- capture queue and _sender (CapSpec)
    q,              \* the capture's bounded queue of chunks, oldest first
    produced,       \* chunks the capture has produced so far
    dropped,        \* chunks dropped on overflow (AudioInput._dropped)
    sender_pc,      \* position of _sender
    chunk,          \* the chunk _sender holds
    last_pull,      \* how the last get_chunk of _sender ended
    rc_state,       \* PcmRateConverter._state of in_converter, <<>> for None
    pulled,         \* history: the chunks _sender pulled, in order
    appended        \* the audio of the input_audio_buffer.append events sent

capVars == <<q, produced, dropped, sender_pc, chunk, last_pull, rc_state,
             pulled, appended>>

VARIABLES
    \* ---- the playback sink on its own (SinkSpec)
    sink_op         \* history: the last call on the sink and what it returned

sinkVars == <<sink_op>>

VARIABLES
    \* ---- history of the ledger, for the statements below
    ttfa_log,       \* the "ttfa" records _play_tracker has logged, in order
    first_append    \* turn id -> the sink as the turn's first audio found
                    \* it, and every epoch bound to the turn so far

logVars == <<ttfa_log, first_append>>

VARIABLES
    \* ---- one PcmRateConverter and its caller (ConvSpec)
    pcm_conv,       \* the converter: its fields and _state, <<>> for None
    conv_feed,      \* the chunks the caller has still to pass to convert
    conv_calls      \* history: the convert calls made, with their outcome

convVars == <<pcm_conv, conv_feed, conv_calls>>

VARIABLES
    \* ---- history: the events the receive loop only logged (InfoSpec)
    info_log

infoVars == <<info_log>>

VARIABLES
    \* ---- send_lock and the callers of _send (WireSpec)
    wire

wireVars == <<wire>>

VARIABLES
    \* ---- ProcessLoopbackInput._pump and its queue (LoopSpec)
    loop,           \* the pump: _raw_tail, buf and the queue _q
    loop_log        \* history: the raw bytes read and the chunks put

loopVars == <<loop, loop_log>>

VARIABLES
    \* ---- what the receiver decoded and forwarded (AlignSpec)
    align_log       \* history: the bytes of the audio deltas decoded and of
                    \* the blocks forwarded to the sink; kept only while .on

alignVars == <<align_log>>

VARIABLES
    \* ---- what the device callbacks played (PlaySpec)
    play_log        \* history: the bytes appended, flushed and emitted, and
                    \* the last callback's buffer; kept only while .on

playVars == <<play_log>>

VARIABLES
    \* ---- one ToolPolicy and the calls checked against it (PolicySpec)
    policy,         \* the policy: enabled, whitelist, one limiter per tool
    pol_now,        \* the reading of time.time(), in ticks
    pol_allowed,    \* history: per tool, when check last returned
    pol_op          \* history: the last check, its outcome, the policy before

polVars == <<policy, pol_now, pol_allowed, pol_op>>

VARIABLES
    \* ---- one EnergyVadSegmenter and the blocks pushed into it (VadSpec)
    vad,            \* the segmenter: its parameters and its four fields
    vad_utt,        \* history: the blocks of the utterance in progress
    vad_op          \* history: the last push and what it returned

vadVars == <<vad, vad_utt, vad_op>>

VARIABLES
    \* ---- the outbound events of a session with their ids (EvSpec)
    event_ids       \* history: type and event_id of every event sent

evVars == <<event_ids>>

\* The variables of the components modelled on their own.
unitVars == <<evVars, vadVars, polVars, playVars, alignVars, loopVars, wireVars, infoVars>>

coreVars == <<sessVars, supVars, capVars, sinkVars, logVars, convVars>>

\* What the steps of one such component leave unchanged.
evRest == <<coreVars, vadVars, polVars, playVars, alignVars, loopVars, wireVars, infoVars>>

vadRest == <<coreVars, evVars, polVars, playVars, alignVars, loopVars, wireVars, infoVars>>

polRest == <<coreVars, evVars, vadVars, playVars, alignVars, loopVars, wireVars, infoVars>>

playRest == <<coreVars, evVars, vadVars, polVars, alignVars, loopVars, wireVars, infoVars>>

playOthers == <<evVars, vadVars, polVars, alignVars, loopVars, wireVars, infoVars>>

alignRest == <<coreVars, evVars, vadVars, polVars, playVars, loopVars, wireVars, infoVars>>

alignOthers == <<evVars, vadVars, polVars, playVars, loopVars, wireVars, infoVars>>

loopRest == <<coreVars, evVars, vadVars, polVars, playVars, alignVars, wireVars, infoVars>>

wireRest == <<coreVars, evVars, vadVars, polVars, playVars, alignVars, loopVars, infoVars>>

infoRest == <<coreVars, evVars, vadVars, polVars, playVars, alignVars, loopVars, wireVars>>

infoOthers == <<evVars, vadVars, polVars, playVars, alignVars, loopVars, wireVars>>

vars == <<sessVars, supVars, capVars, sinkVars, logVars, convVars, unitVars>>

\* ----------------------------------------------------------------- helpers
Min(a, b) == IF a < b THEN a ELSE b

Put(m, k, v) == [x \in (DOMAIN m) \cup {k} |-> IF x = k THEN v ELSE m[x]]

Pop(m, k) == [x \in (DOMAIN m) \ {k} |-> m[x]]

EmptyMap == [x \in {} |-> None]

Count(s, e) == Cardinality({i \in 1..Len(s) : s[i] = e})

\* A decoded payload of n bytes; each byte carries the item_id of its delta.
Payload(item_id, n) == [i \in 1..n |-> item_id]

\* ------------------------------------------------------------ TurnTtfa
TurnTtfa(turn_id, eos) ==
    [turn_id |-> turn_id, eos_proxy_ms |-> eos,
     first_audio_delta_ms |-> NoneMs, first_audio_played_ms |-> NoneMs]

\* TurnTtfa.ttfa_ms() and TurnTtfa.ttf_delta_ms(): None while a side is None.
ttfa_ms(t) ==
    IF t.eos_proxy_ms = NoneMs \/ t.first_audio_played_ms = NoneMs
      THEN NoneMs
      ELSE t.first_audio_played_ms - t.eos_proxy_ms

ttf_delta_ms(t) ==
    IF t.eos_proxy_ms = NoneMs \/ t.first_audio_delta_ms = NoneMs
      THEN NoneMs
      ELSE t.first_audio_delta_ms - t.eos_proxy_ms

\* ------------------------------------------------------- AudioOutputSink
SinkInit ==
    [buf |-> <<>>, tail |-> <<>>, play_epoch |-> 0,
     awaiting_play_epoch |-> NoEpoch, play_started_q |-> <<>>,
     last_non_silent |-> NoneMs]

SinkFrameBytes == 2 * SinkChannels

\* append_pcm16 without the frame alignment: the whole tail goes to the buffer.
append_pcm16_Unaligned(s, pcm16) ==
    IF pcm16 = <<>> THEN [sink |-> s, epoch |-> NoEpoch]
    ELSE LET issue == s.buf = <<>> /\ s.awaiting_play_epoch = NoEpoch
         IN  [sink |-> [s EXCEPT !.buf = @ \o s.tail \o pcm16, !.tail = <<>>,
                          !.play_epoch = IF issue THEN @ + 1 ELSE @,
                          !.awaiting_play_epoch =
                              IF issue THEN s.play_epoch + 1 ELSE @],
              epoch |-> IF issue THEN s.play_epoch + 1 ELSE NoEpoch]

\* append_pcm16: the sink after the append and the epoch it returns.
append_pcm16(s, pcm16) ==
    IF pcm16 = <<>> THEN [sink |-> s, epoch |-> NoEpoch]
    ELSE LET was_empty == s.buf = <<>>
             t2   == s.tail \o pcm16
             n    == (Len(t2) \div SinkFrameBytes) * SinkFrameBytes
             buf2 == s.buf \o SubSeq(t2, 1, n)
             t3   == SubSeq(t2, n + 1, Len(t2))
             issue == was_empty /\ buf2 # <<>> /\ s.awaiting_play_epoch = NoEpoch
         IN  [sink |-> [s EXCEPT !.buf = buf2, !.tail = t3,
                          !.play_epoch = IF issue THEN @ + 1 ELSE @,
                          !.awaiting_play_epoch =
                              IF issue THEN s.play_epoch + 1 ELSE @],
              epoch |-> IF issue THEN s.play_epoch + 1 ELSE NoEpoch]

pending_bytes(s) == Len(s.buf) + Len(s.tail)

is_audible(s, t, within_ms) ==
    IF s.last_non_silent = NoneMs THEN FALSE
    ELSE (t - s.last_non_silent) <= within_ms

\* flush that forgets the tail.
flush_KeepTail(s) ==
    [sink |-> [s EXCEPT !.buf = <<>>, !.awaiting_play_epoch = NoEpoch,
                        !.play_epoch = @ + 1],
     dropped |-> Len(s.buf)]

\* A flush that counts only the main buffer in what it returns.
flush_CountsBufOnly(s) ==
    [sink |-> [s EXCEPT !.buf = <<>>, !.tail = <<>>,
                        !.awaiting_play_epoch = NoEpoch,
                        !.play_epoch = @ + 1],
     dropped |-> Len(s.buf)]

\* flush: the sink after the flush and the number of bytes dropped.
flush(s) ==
    [sink |-> [s EXCEPT !.buf = <<>>, !.tail = <<>>,
                        !.awaiting_play_epoch = NoEpoch,
                        !.play_epoch = @ + 1],
     dropped |-> Len(s.buf) + Len(s.tail)]

\* ---------------------------------------------------------- the session
\* The barge-in test that takes the agent to be speaking always.
_should_barge_in_cancel_Always == TRUE

_should_barge_in_cancel ==
    is_audible(audio_out, now, AudibleWithinMs) \/ pending_bytes(audio_out) > 0

\* async for msg in ws: the loop takes one more message.
RecvMsg ==
    /\ session = "running"
    /\ received < MaxReceived
    /\ received' = received + 1

SessInit ==
    /\ now = StartMs
    /\ session = "running"
    /\ active_response_id = None
    /\ recv_active_response_id = Unbound
    /\ cancelled_response_ids = {}
    /\ last_cancel_ms = 0
    /\ turns = EmptyMap
    /\ epoch_to_turn = EmptyMap
    /\ pcm_tail = <<>>
    /\ misaligned_chunks = 0
    /\ sent = <<"session.update">>
    /\ received = 0
    /\ audio_out = SinkInit
    /\ cb = [pc |-> "idle", got |-> 0, epoch |-> NoEpoch]
    /\ open_responses = {}
    /\ barge = [outcome |-> "none", had_active |-> FALSE, cancels |-> 0,
                flush_epoch |-> NoEpoch, stale_seen |-> FALSE]

LogInit ==
    /\ ttfa_log = <<>>
    /\ first_append = EmptyMap

Tick ==
    /\ now < StartMs + MaxTicks * TickMs
    /\ now' = now + TickMs
    /\ UNCHANGED <<session, active_response_id, recv_active_response_id,
                   cancelled_response_ids, last_cancel_ms, turns,
                   epoch_to_turn, pcm_tail, misaligned_chunks, sent,
                   audio_out, cb, open_responses, barge, received>>
    /\ UNCHANGED supVars
    /\ UNCHANGED capVars
    /\ UNCHANGED sinkVars
    /\ UNCHANGED logVars
    /\ UNCHANGED convVars
    /\ UNCHANGED unitVars

\* typ == "response.created": the assignment binds the name local to
\* _receiver; the variable of _run_one_session is not written.
RecvResponseCreated(resp_id) ==
    /\ RecvMsg
    /\ recv_active_response_id' = resp_id
    /\ open_responses' = open_responses \cup {resp_id}
    /\ UNCHANGED <<now, session, active_response_id, cancelled_response_ids,
                   last_cancel_ms, turns, epoch_to_turn, pcm_tail,
                   misaligned_chunks, sent, audio_out, cb, barge>>
    /\ UNCHANGED supVars
    /\ UNCHANGED capVars
    /\ UNCHANGED sinkVars
    /\ UNCHANGED logVars
    /\ UNCHANGED convVars
    /\ UNCHANGED unitVars

\* typ == "response.done": reading the local before any assignment raises
\* UnboundLocalError, which ends the receive loop.
RecvResponseDone(resp_id) ==
    /\ RecvMsg
    /\ IF recv_active_response_id = Unbound
         THEN /\ session' = "failed"
              /\ UNCHANGED recv_active_response_id
         ELSE /\ recv_active_response_id' =
                    IF recv_active_response_id = resp_id THEN None
                    ELSE recv_active_response_id
              /\ UNCHANGED session
    /\ open_responses' = open_responses \ {resp_id}
    /\ UNCHANGED <<now, active_response_id, cancelled_response_ids,
                   last_cancel_ms, turns, epoch_to_turn, pcm_tail,
                   misaligned_chunks, sent, audio_out, cb, barge>>
    /\ UNCHANGED supVars
    /\ UNCHANGED capVars
    /\ UNCHANGED sinkVars
    /\ UNCHANGED logVars
    /\ UNCHANGED convVars
    /\ UNCHANGED unitVars

\* The cancellation without epoch_to_turn.clear().
_cancel_active_response_KeepMap ==
    IF now - last_cancel_ms < DebounceMs
      THEN /\ barge' = [barge EXCEPT !.outcome = "debounced"]
           /\ UNCHANGED <<last_cancel_ms, active_response_id,
                          cancelled_response_ids, sent, audio_out,
                          epoch_to_turn>>
      ELSE /\ last_cancel_ms' = now
           /\ IF active_response_id # None
                THEN /\ cancelled_response_ids' =
                            cancelled_response_ids \cup {active_response_id}
                     /\ sent' = Append(sent, "response.cancel")
                     /\ active_response_id' = None
                ELSE UNCHANGED <<cancelled_response_ids, sent,
                                 active_response_id>>
           /\ audio_out' = flush(audio_out).sink
           /\ UNCHANGED epoch_to_turn
           /\ barge' = [barge EXCEPT
                  !.outcome = "effective",
                  !.had_active = open_responses # {},
                  !.cancels = IF active_response_id # None THEN 1 ELSE 0,
                  !.flush_epoch = flush(audio_out).sink.play_epoch]

\* _cancel_active_response(reason): debounce, then cancel the response the
\* enclosing scope holds, flush the sink and clear the attribution map.
\* The connection is open while the session runs, so _send delivers.
_cancel_active_response ==
    IF now - last_cancel_ms < DebounceMs
      THEN /\ barge' = [barge EXCEPT !.outcome = "debounced"]
           /\ UNCHANGED <<last_cancel_ms, active_response_id,
                          cancelled_response_ids, sent, audio_out,
                          epoch_to_turn>>
      ELSE /\ last_cancel_ms' = now
           /\ IF active_response_id # None
                THEN /\ cancelled_response_ids' =
                            cancelled_response_ids \cup {active_response_id}
                     /\ sent' = Append(sent, "response.cancel")
                     /\ active_response_id' = None
                ELSE UNCHANGED <<cancelled_response_ids, sent,
                                 active_response_id>>
           /\ audio_out' = flush(audio_out).sink
           /\ epoch_to_turn' = EmptyMap
           /\ barge' = [barge EXCEPT
                  !.outcome = "effective",
                  !.had_active = open_responses # {},
                  !.cancels = IF active_response_id # None THEN 1 ELSE 0,
                  !.flush_epoch = flush(audio_out).sink.play_epoch]

\* typ == "input_audio_buffer.speech_started"
RecvSpeechStarted ==
    /\ RecvMsg
    /\ IF _should_barge_in_cancel
         THEN _cancel_active_response
         ELSE /\ barge' = [barge EXCEPT !.outcome = "skipped"]
              /\ UNCHANGED <<last_cancel_ms, active_response_id,
                             cancelled_response_ids, sent, audio_out,
                             epoch_to_turn>>
    /\ UNCHANGED <<now, session, recv_active_response_id, turns, pcm_tail,
                   misaligned_chunks, cb, open_responses>>
    /\ align_log' = IF align_log.cut.on /\ barge'.outcome = "effective"
                      THEN [align_log EXCEPT
                              !.cut.at = Len(align_log.decoded)]
                      ELSE align_log
    /\ UNCHANGED supVars
    /\ UNCHANGED capVars
    /\ UNCHANGED sinkVars
    /\ UNCHANGED logVars
    /\ UNCHANGED convVars
    /\ UNCHANGED alignOthers

\* typ == "input_audio_buffer.speech_stopped"
RecvSpeechStopped(item_id) ==
    /\ RecvMsg
    /\ turns' = Put(turns, item_id, TurnTtfa(item_id, now))
    /\ UNCHANGED <<now, session, active_response_id, recv_active_response_id,
                   cancelled_response_ids, last_cancel_ms, epoch_to_turn,
                   pcm_tail, misaligned_chunks, sent, audio_out, cb,
                   open_responses, barge>>
    /\ UNCHANGED supVars
    /\ UNCHANGED capVars
    /\ UNCHANGED sinkVars
    /\ UNCHANGED logVars
    /\ UNCHANGED convVars
    /\ UNCHANGED unitVars

\* A wire frame taken one byte too long.
WireFrameBytes_Odd == BytesPerSample * OutputChannels + 1

WireFrameBytes == BytesPerSample * OutputChannels

\* History: the epochs bound to a turn so far by its "first" audio deltas.
EpochsBound(item_id) ==
    IF item_id \in DOMAIN first_append THEN first_append[item_id].bound
    ELSE {}

\* typ == "response.audio.delta" with a string delta that decodes to raw.
\* The sink runs at the wire rate and channel count: out_converter is None.
RecvAudioDeltaWithin(response_id, item_id, raw, room) ==
    /\ RecvMsg
    /\ IF response_id \in cancelled_response_ids
         THEN UNCHANGED <<misaligned_chunks, pcm_tail, audio_out, turns,
                          epoch_to_turn, first_append, align_log>>
         ELSE LET odd == Len(raw) % BytesPerSample # 0
                  pt  == pcm_tail \o raw
                  n   == (Len(pt) \div WireFrameBytes) * WireFrameBytes
                  pcm == SubSeq(pt, 1, n)
                  res == append_pcm16(audio_out, pcm)
                  t0  == IF item_id \in DOMAIN turns THEN turns[item_id]
                         ELSE TurnTtfa(item_id, NoneMs)
                  first == t0.first_audio_delta_ms = NoneMs
              IN  /\ Len(audio_out.buf) + n <= room
                  /\ misaligned_chunks' =
                         IF odd THEN misaligned_chunks + 1
                         ELSE misaligned_chunks
                  /\ align_log' =
                         IF align_log.on
                           THEN [align_log EXCEPT
                                   !.decoded = @ \o raw,
                                   !.forwarded = @ \o pcm,
                                   !.last = [tail |-> Len(pcm_tail),
                                             raw |-> Len(raw),
                                             sent |-> Len(pcm)]]
                           ELSE align_log
                  /\ IF n <= 0
                       THEN /\ pcm_tail' = pt
                            /\ UNCHANGED <<audio_out, turns, epoch_to_turn,
                                            first_append>>
                       ELSE /\ pcm_tail' = SubSeq(pt, n + 1, Len(pt))
                            /\ audio_out' = res.sink
                            /\ turns' = Put(turns, item_id,
                                 IF first
                                   THEN [t0 EXCEPT !.first_audio_delta_ms = now]
                                   ELSE t0)
                            /\ epoch_to_turn' =
                                 IF first /\ res.epoch # NoEpoch
                                   THEN Put(epoch_to_turn, res.epoch, item_id)
                                   ELSE epoch_to_turn
                            /\ first_append' =
                                 IF first
                                   THEN Put(first_append, item_id,
                                          [empty |-> pending_bytes(audio_out) = 0,
                                           epoch |-> res.epoch,
                                           bound |-> EpochsBound(item_id)
                                               \cup (IF res.epoch # NoEpoch
                                                       THEN {res.epoch}
                                                       ELSE {})])
                                   ELSE first_append
    /\ UNCHANGED <<now, session, active_response_id, recv_active_response_id,
                   cancelled_response_ids, last_cancel_ms, sent, cb,
                   open_responses, barge>>
    /\ UNCHANGED supVars
    /\ UNCHANGED capVars
    /\ UNCHANGED sinkVars
    /\ UNCHANGED ttfa_log
    /\ UNCHANGED convVars
    /\ UNCHANGED alignOthers

RecvAudioDelta(response_id, item_id, raw) ==
    RecvAudioDeltaWithin(response_id, item_id, raw, MaxBufBytes)

\* A byte of silence the callback fills with: it comes from no append.
ZeroByte == [n |-> 0, v |-> 0]

\* The bytes to copy when the callback takes all the buffer holds.
take_frames_All(want, available) ==
    (available \div SinkFrameBytes) * SinkFrameBytes

\* _callback: take = (min(want, len(self._buf)) // frame_bytes) * frame_bytes
take_frames(want, available) ==
    (Min(want, available) \div SinkFrameBytes) * SinkFrameBytes

\* _callback, first critical section: copy whole frames out of the buffer.
\* A callback that found nothing touches no other shared state.
CbTake(frames) ==
    /\ cb.pc = "idle"
    /\ LET want == frames * SinkFrameBytes
           take == take_frames(want, Len(audio_out.buf))
           out  == SubSeq(audio_out.buf, 1, take)
           rest == SubSeq(audio_out.buf, take + 1, Len(audio_out.buf))
       IN  /\ audio_out' = [audio_out EXCEPT !.buf = rest]
           /\ cb' = IF take > 0
                      THEN [pc |-> "took", got |-> take, epoch |-> NoEpoch]
                      ELSE [pc |-> "idle", got |-> 0, epoch |-> NoEpoch]
           /\ play_log' =
                 IF play_log.on
                   THEN [play_log EXCEPT
                           !.want = want,
                           !.pre = audio_out.buf,
                           !.post = rest,
                           !.outdata = out \o [i \in 1..(want - take) |-> ZeroByte],
                           !.emitted = @ \o out,
                           !.loud = \E i \in 1..take : out[i].v # 0]
                   ELSE IF play_log.marks.on
                     THEN [play_log EXCEPT
                             !.marks.out = {out[i] : i \in 1..take}]
                     ELSE play_log
    /\ UNCHANGED <<now, session, active_response_id, recv_active_response_id,
                   cancelled_response_ids, last_cancel_ms, turns,
                   epoch_to_turn, pcm_tail, misaligned_chunks, sent,
                   open_responses, barge, received>>
    /\ UNCHANGED supVars
    /\ UNCHANGED capVars
    /\ UNCHANGED sinkVars
    /\ UNCHANGED logVars
    /\ UNCHANGED convVars
    /\ UNCHANGED playOthers

\* _callback, second critical section: the last-non-silent marker.
CbMark ==
    /\ cb.pc = "took"
    /\ audio_out' = [audio_out EXCEPT
                        !.last_non_silent = IF cb.got > 0 THEN now ELSE @]
    /\ cb' = [cb EXCEPT !.pc = "marked"]
    /\ play_log' = IF play_log.on /\ play_log.loud
                     THEN [play_log EXCEPT !.last_loud = now]
                     ELSE play_log
    /\ UNCHANGED <<now, session, active_response_id, recv_active_response_id,
                   cancelled_response_ids, last_cancel_ms, turns,
                   epoch_to_turn, pcm_tail, misaligned_chunks, sent,
                   open_responses, barge, received>>
    /\ UNCHANGED supVars
    /\ UNCHANGED capVars
    /\ UNCHANGED sinkVars
    /\ UNCHANGED logVars
    /\ UNCHANGED convVars
    /\ UNCHANGED playOthers

\* _callback, outside the lock: `got > 0 and self._awaiting_play_epoch is not
\* None`.  The three accesses to _awaiting_play_epoch that follow the second
\* critical section are unlocked, so each is a step of its own.
CbCheck ==
    /\ cb.pc = "marked"
    /\ cb' = IF cb.got > 0 /\ audio_out.awaiting_play_epoch # NoEpoch
               THEN [cb EXCEPT !.pc = "checked"]
               ELSE [pc |-> "idle", got |-> 0, epoch |-> NoEpoch]
    /\ UNCHANGED audio_out
    /\ UNCHANGED <<now, session, active_response_id, recv_active_response_id,
                   cancelled_response_ids, last_cancel_ms, turns,
                   epoch_to_turn, pcm_tail, misaligned_chunks, sent,
                   open_responses, barge, received>>
    /\ UNCHANGED supVars
    /\ UNCHANGED capVars
    /\ UNCHANGED sinkVars
    /\ UNCHANGED logVars
    /\ UNCHANGED convVars
    /\ UNCHANGED unitVars

\* _callback: epoch = self._awaiting_play_epoch
CbRead ==
    /\ cb.pc = "checked"
    /\ cb' = [cb EXCEPT !.pc = "read", !.epoch = audio_out.awaiting_play_epoch]
    /\ UNCHANGED audio_out
    /\ UNCHANGED <<now, session, active_response_id, recv_active_response_id,
                   cancelled_response_ids, last_cancel_ms, turns,
                   epoch_to_turn, pcm_tail, misaligned_chunks, sent,
                   open_responses, barge, received>>
    /\ UNCHANGED supVars
    /\ UNCHANGED capVars
    /\ UNCHANGED sinkVars
    /\ UNCHANGED logVars
    /\ UNCHANGED convVars
    /\ UNCHANGED unitVars

\* _callback: self._awaiting_play_epoch = None, then _emit on the event loop
\* puts the epoch the callback read on the play-start queue.
CbSignal ==
    /\ cb.pc = "read"
    /\ audio_out' = [audio_out EXCEPT
                        !.play_started_q = Append(@, cb.epoch),
                        !.awaiting_play_epoch = NoEpoch]
    /\ cb' = [pc |-> "idle", got |-> 0, epoch |-> NoEpoch]
    /\ play_log' = IF play_log.marks.on
                     THEN [play_log EXCEPT
                             !.marks.by_epoch =
                                 Put(@, cb.epoch, play_log.marks.out)]
                     ELSE play_log
    /\ UNCHANGED <<now, session, active_response_id, recv_active_response_id,
                   cancelled_response_ids, last_cancel_ms, turns,
                   epoch_to_turn, pcm_tail, misaligned_chunks, sent,
                   open_responses, barge, received>>
    /\ UNCHANGED supVars
    /\ UNCHANGED capVars
    /\ UNCHANGED sinkVars
    /\ UNCHANGED logVars
    /\ UNCHANGED convVars
    /\ UNCHANGED playOthers

\* _play_tracker: one iteration of the loop.
PlayTracker ==
    /\ session = "running"
    /\ audio_out.play_started_q # <<>>
    /\ LET epoch   == Head(audio_out.play_started_q)
           turn_id == IF epoch \in DOMAIN epoch_to_turn
                        THEN epoch_to_turn[epoch] ELSE None
       IN  /\ audio_out' = [audio_out EXCEPT !.play_started_q = Tail(@)]
           /\ epoch_to_turn' = Pop(epoch_to_turn, epoch)
           /\ IF /\ turn_id # None
                 /\ turn_id \in DOMAIN turns
                 /\ turns[turn_id].first_audio_played_ms = NoneMs
                THEN LET t == [turns[turn_id] EXCEPT
                                  !.first_audio_played_ms = now]
                     IN  /\ turns' = [turns EXCEPT ![turn_id] = t]
                         /\ ttfa_log' = Append(ttfa_log,
                                [turn_id |-> turn_id,
                                 ttf_delta_ms |-> ttf_delta_ms(t),
                                 ttfa_ms |-> ttfa_ms(t)])
                ELSE UNCHANGED <<turns, ttfa_log>>
           /\ barge' = [barge EXCEPT
                  !.stale_seen = @ \/ (epoch # NoEpoch
                                         /\ epoch <= barge.flush_epoch)]
    /\ UNCHANGED <<now, session, active_response_id, recv_active_response_id,
                   cancelled_response_ids, last_cancel_ms, pcm_tail,
                   misaligned_chunks, sent, cb, open_responses, received>>
    /\ UNCHANGED supVars
    /\ UNCHANGED capVars
    /\ UNCHANGED sinkVars
    /\ UNCHANGED first_append
    /\ UNCHANGED convVars
    /\ UNCHANGED unitVars

\* Decoded lengths of a delta: empty, below one wire frame, one frame, one
\* frame and a remainder.
DeltaLens == 0..(WireFrameBytes + 1)

\* Frames a device callback asks for: up to everything the buffer can hold.
CallbackFrames == 1..(MaxBufBytes \div SinkFrameBytes)

\* Ids are opaque strings the remote assigns, so a behaviour and its renaming
\* are the same behaviour: while the session holds no id at all, the next
\* one the remote uses is called "T1" ("R1").
Range(f) == {f[x] : x \in DOMAIN f}

KnownTurns ==
    (DOMAIN turns) \cup Range(pcm_tail) \cup Range(audio_out.buf)
        \cup Range(audio_out.tail)

TurnNames == IF KnownTurns = {} THEN {"T1"} ELSE TurnIds

KnownResponses ==
    (open_responses \cup cancelled_response_ids
        \cup {recv_active_response_id, active_response_id}) \cap ResponseIds

ResponseNames == IF KnownResponses = {} THEN {"R1"} ELSE ResponseIds

SessNext ==
    \/ Tick
    \/ \E r \in ResponseNames : RecvResponseCreated(r)
    \/ \E r \in ResponseNames : RecvResponseDone(r)
    \/ RecvSpeechStarted
    \/ \E t \in TurnNames : RecvSpeechStopped(t)
    \/ \E r \in ResponseNames, t \in TurnNames, n \in DeltaLens :
           RecvAudioDelta(r, t, Payload(t, n))
    \/ \E f \in CallbackFrames : CbTake(f)
    \/ CbMark
    \/ CbCheck
    \/ CbRead
    \/ CbSignal
    \/ PlayTracker

\* ===================================== run_speech_loop and run (SupSpec)
BaseBackoffMs == 500      \* backoff_s = 0.5
MaxBackoffMs  == 10000    \* min(backoff_s * 2, 10.0)
RotationCode  == 1000     \* ws.close(code=1000, reason="session rotation")
CleanLifetimeS == 1       \* minimum clean lifetime of a session (spec 7, 8)

ApiKeys   == {"sk-key", "", None}       \* None: missing or not a string
Sources   == {"mic", "process_loopback", "loopback", "other"}
TaskNames == {"_play_tracker", "_sender", "_receiver", "_rotate_session_timer"}
Finished  == {"done", "failed", "cancelled"}

\* The doubling without its cap.
NextBackoff_Uncapped(b) == b * 2

NextBackoff(b) == Min(b * 2, MaxBackoffMs)

\* try / except of run(): what run() does with the way _run_one_session ended.
RunHandler(outcome) ==
    CASE outcome = "returned"       -> "reset"
      [] outcome = "CancelledError" -> "raise"
      [] OTHER                      -> "sleep"

\* async with asyncio.TaskGroup(): how the group is left once every task has
\* finished.  A group with a failed task raises the ExceptionGroup, also when
\* the parent was cancelled while the group was waiting for its tasks; a
\* group whose tasks were cancelled with the parent raises CancelledError.
TaskGroupOutcome(tasks, cancelled) ==
    IF \E t \in TaskNames : tasks[t] = "failed" THEN "ExceptionGroup"
    ELSE IF cancelled THEN "CancelledError"
    ELSE "returned"

\* A group that cancels nothing.
Abort_None(tasks) == tasks

\* The group aborts: every task still running is cancelled.
Abort(tasks) ==
    [t \in TaskNames |-> IF tasks[t] = "running" THEN "cancelled" ELSE tasks[t]]

SupInit ==
    /\ cfg \in [api_key : ApiKeys, source : Sources]
    /\ loop_pc = "validate"
    /\ loop_exc = None
    /\ in_stream = "none"
    /\ cap = "none"
    /\ pump_task = "none"
    /\ out_stream = "none"
    /\ ws = "none"
    /\ close_code = 0
    /\ sup_pc = "none"
    /\ tg = [t \in TaskNames |-> "none"]
    /\ backoff_ms = BaseBackoffMs
    /\ sleep_ms = 0
    /\ age_s = 0
    /\ failures = 0
    /\ ended_by = "none"
    /\ cancel = "none"

\* The supervisor as it stands while one session runs (the state Spec explores).
SupSession(source) ==
    /\ cfg = [api_key |-> "sk-key", source |-> source]
    /\ loop_pc = "supervising"
    /\ loop_exc = None
    /\ in_stream = IF source = "mic" THEN "started" ELSE "none"
    /\ cap = IF source = "mic" THEN "none" ELSE "started"
    /\ pump_task = IF source = "mic" THEN "none" ELSE "running"
    /\ out_stream = "started"
    /\ ws = "open"
    /\ close_code = 0
    /\ sup_pc = "session"
    /\ tg = [t \in TaskNames |-> "running"]
    /\ backoff_ms = BaseBackoffMs
    /\ sleep_ms = 0
    /\ age_s = 0
    /\ failures = 0
    /\ ended_by = "none"
    /\ cancel = "none"

SupIdle == SupSession("process_loopback")

\* The validation without the else branch that rejects an unknown source.
Validate_NoSourceCheck ==
    /\ loop_pc = "validate"
    /\ IF cfg.api_key = None \/ cfg.api_key = ""
         THEN loop_pc' = "exited" /\ loop_exc' = "ValueError"
         ELSE loop_pc' = "enter_capture" /\ loop_exc' = None
    /\ UNCHANGED <<cfg, in_stream, cap, pump_task, out_stream, ws, close_code,
                   sup_pc, tg, backoff_ms, sleep_ms, age_s, failures,
                   ended_by, cancel>>
    /\ UNCHANGED sessVars
    /\ UNCHANGED capVars
    /\ UNCHANGED sinkVars
    /\ UNCHANGED logVars
    /\ UNCHANGED convVars
    /\ UNCHANGED unitVars

\* run_speech_loop up to the async with: the api key, then the input source.
Validate ==
    /\ loop_pc = "validate"
    /\ IF cfg.api_key = None \/ cfg.api_key = ""
         THEN loop_pc' = "exited" /\ loop_exc' = "ValueError"
         ELSE IF cfg.source \in {"mic", "process_loopback", "loopback"}
                THEN loop_pc' = "enter_capture" /\ loop_exc' = None
                ELSE loop_pc' = "exited" /\ loop_exc' = "ValueError"
    /\ UNCHANGED <<cfg, in_stream, cap, pump_task, out_stream, ws, close_code,
                   sup_pc, tg, backoff_ms, sleep_ms, age_s, failures,
                   ended_by, cancel>>
    /\ UNCHANGED sessVars
    /\ UNCHANGED capVars
    /\ UNCHANGED sinkVars
    /\ UNCHANGED logVars
    /\ UNCHANGED convVars
    /\ UNCHANGED unitVars

StartOutcomes == {"open_failed", "start_failed", "ok"}

\* audio_in_cm.__aenter__: AudioInput.start or ProcessLoopbackInput.__aenter__.
\* An __aenter__ that raises leaves no __aexit__ behind.
EnterCapture(outcome) ==
    /\ loop_pc = "enter_capture"
    /\ IF cfg.source = "mic"
         THEN /\ in_stream' = CASE outcome = "open_failed"  -> "none"
                                [] outcome = "start_failed" -> "open"
                                [] OTHER                    -> "started"
              /\ UNCHANGED <<cap, pump_task>>
         ELSE /\ cap' = CASE outcome = "open_failed"  -> "none"
                          [] outcome = "start_failed" -> "created"
                          [] OTHER                    -> "started"
              /\ pump_task' = IF outcome = "ok" THEN "running" ELSE "none"
              /\ UNCHANGED in_stream
    /\ IF outcome = "ok"
         THEN loop_pc' = "enter_playback" /\ UNCHANGED loop_exc
         ELSE loop_pc' = "exited" /\ loop_exc' = "StartupError"
    /\ UNCHANGED <<cfg, out_stream, ws, close_code, sup_pc, tg, backoff_ms,
                   sleep_ms, age_s, failures, ended_by, cancel>>
    /\ UNCHANGED sessVars
    /\ UNCHANGED capVars
    /\ UNCHANGED sinkVars
    /\ UNCHANGED logVars
    /\ UNCHANGED convVars
    /\ UNCHANGED unitVars

\* AudioOutputSink.__aenter__ -> start; on success the task group of
\* run_speech_loop starts client.run.
EnterPlayback(outcome) ==
    /\ loop_pc = "enter_playback"
    /\ out_stream' = CASE outcome = "open_failed"  -> "none"
                       [] outcome = "start_failed" -> "open"
                       [] OTHER                    -> "started"
    /\ IF outcome = "ok"
         THEN /\ loop_pc' = "supervising"
              /\ sup_pc' = "connecting"
              /\ UNCHANGED loop_exc
         ELSE /\ loop_pc' = "exit_capture"
              /\ loop_exc' = "StartupError"
              /\ UNCHANGED sup_pc
    /\ UNCHANGED <<cfg, in_stream, cap, pump_task, ws, close_code, tg,
                   backoff_ms, sleep_ms, age_s, failures, ended_by, cancel>>
    /\ UNCHANGED sessVars
    /\ UNCHANGED capVars
    /\ UNCHANGED sinkVars
    /\ UNCHANGED logVars
    /\ UNCHANGED convVars
    /\ UNCHANGED unitVars

\* _pump: the capture iterator ended or raised, the pump task is over.
PumpEnds ==
    /\ pump_task = "running"
    /\ loop_pc \in {"enter_playback", "supervising"}
    /\ pump_task' = "finished"
    /\ UNCHANGED <<cfg, loop_pc, loop_exc, in_stream, cap, out_stream, ws,
                   close_code, sup_pc, tg, backoff_ms, sleep_ms, age_s,
                   failures, ended_by, cancel>>
    /\ UNCHANGED sessVars
    /\ UNCHANGED capVars
    /\ UNCHANGED sinkVars
    /\ UNCHANGED logVars
    /\ UNCHANGED convVars
    /\ UNCHANGED unitVars

\* run(): the exception leaves run(), and with it the task group of
\* run_speech_loop, which unwinds through the two async with blocks.
SupRaise ==
    /\ sup_pc' = "stopped"
    /\ loop_pc' = "exit_playback"
    /\ loop_exc' = "CancelledError"
    /\ UNCHANGED <<backoff_ms, sleep_ms, failures>>

\* run(): the three ways out of `await self._run_one_session(...)`.
HandleEnd(outcome) ==
    LET h == RunHandler(outcome)
    IN  IF h = "raise" THEN SupRaise
        ELSE IF h = "reset"
          THEN /\ sup_pc' = "connecting"
               /\ backoff_ms' = BaseBackoffMs
               /\ failures' = 0
               /\ UNCHANGED <<sleep_ms, loop_pc, loop_exc>>
          ELSE /\ failures < MaxFailures
               /\ sup_pc' = "sleeping"
               /\ sleep_ms' = backoff_ms
               /\ failures' = failures + 1
               /\ UNCHANGED <<backoff_ms, loop_pc, loop_exc>>

\* websockets.connect and the session.update handshake.
Connect(ok) ==
    /\ loop_pc = "supervising"
    /\ sup_pc = "connecting"
    /\ age_s' = 0
    /\ IF ok
         THEN /\ ws' = "open"
              /\ tg' = [t \in TaskNames |-> "running"]
              /\ sup_pc' = "session"
              /\ ended_by' = "none"
              /\ UNCHANGED <<backoff_ms, sleep_ms, failures, loop_pc,
                             loop_exc>>
         ELSE /\ ws' = "none"
              /\ tg' = [t \in TaskNames |-> "none"]
              /\ ended_by' = "connect_failed"
              /\ HandleEnd("Exception")
    /\ close_code' = 0
    /\ UNCHANGED <<cfg, in_stream, cap, pump_task, out_stream, cancel>>
    /\ UNCHANGED sessVars
    /\ UNCHANGED capVars
    /\ UNCHANGED sinkVars
    /\ UNCHANGED logVars
    /\ UNCHANGED convVars
    /\ UNCHANGED unitVars

\* One second of a live session.
SessionTick ==
    /\ sup_pc = "session"
    /\ \A t \in TaskNames : tg[t] = "running"
    /\ age_s < SessionMaxAgeS
    /\ age_s' = age_s + 1
    /\ UNCHANGED <<cfg, loop_pc, loop_exc, in_stream, cap, pump_task,
                   out_stream, ws, close_code, sup_pc, tg, backoff_ms,
                   sleep_ms, failures, ended_by, cancel>>
    /\ UNCHANGED sessVars
    /\ UNCHANGED capVars
    /\ UNCHANGED sinkVars
    /\ UNCHANGED logVars
    /\ UNCHANGED convVars
    /\ UNCHANGED unitVars

\* _rotate_session_timer: the sleep is over, close with the normal code.
TimerFires ==
    /\ sup_pc = "session"
    /\ tg["_rotate_session_timer"] = "running"
    /\ age_s >= SessionMaxAgeS
    /\ ws' = "closed"
    /\ close_code' = IF ws = "open" THEN RotationCode ELSE close_code
    /\ tg' = [tg EXCEPT !["_rotate_session_timer"] = "done"]
    /\ UNCHANGED <<cfg, loop_pc, loop_exc, in_stream, cap, pump_task,
                   out_stream, sup_pc, backoff_ms, sleep_ms, age_s, failures,
                   ended_by, cancel>>
    /\ UNCHANGED sessVars
    /\ UNCHANGED capVars
    /\ UNCHANGED sinkVars
    /\ UNCHANGED logVars
    /\ UNCHANGED convVars
    /\ UNCHANGED unitVars

\* The remote or the transport closes the connection.
RemoteClose ==
    /\ sup_pc = "session"
    /\ ws = "open"
    /\ ws' = "closed"
    /\ UNCHANGED <<cfg, loop_pc, loop_exc, in_stream, cap, pump_task,
                   out_stream, close_code, sup_pc, tg, backoff_ms, sleep_ms,
                   age_s, failures, ended_by, cancel>>
    /\ UNCHANGED sessVars
    /\ UNCHANGED capVars
    /\ UNCHANGED sinkVars
    /\ UNCHANGED logVars
    /\ UNCHANGED convVars
    /\ UNCHANGED unitVars

\* A task of the group raises: the group aborts the tasks still running.
TaskFails(t) ==
    /\ tg' = Abort([tg EXCEPT ![t] = "failed"])
    /\ UNCHANGED <<cfg, loop_pc, loop_exc, in_stream, cap, pump_task,
                   out_stream, ws, close_code, sup_pc, backoff_ms, sleep_ms,
                   age_s, failures, ended_by, cancel>>
    /\ UNCHANGED sessVars
    /\ UNCHANGED capVars
    /\ UNCHANGED sinkVars
    /\ UNCHANGED logVars
    /\ UNCHANGED convVars
    /\ UNCHANGED unitVars

\* _receiver: `async for msg in ws` is over once the connection is closed,
\* and the loop is followed by raise ConnectionError.
ReceiverLoopEnds ==
    /\ sup_pc = "session"
    /\ tg["_receiver"] = "running"
    /\ ws = "closed"
    /\ TaskFails("_receiver")

\* _receiver: a handler raises (response.done read before any assignment of
\* the local active_response_id, a message that is not JSON).
ReceiverRaises ==
    /\ sup_pc = "session"
    /\ tg["_receiver"] = "running"
    /\ ws = "open"
    /\ TaskFails("_receiver")

\* _sender: AudioInput has no get_chunk, so with the microphone the first
\* pull raises AttributeError; a send on a closed connection raises.
SenderFails ==
    /\ sup_pc = "session"
    /\ tg["_sender"] = "running"
    /\ cfg.source = "mic" \/ ws = "closed"
    /\ TaskFails("_sender")

\* _run_one_session is left: the task group is over, the connection's
\* async with closes it, and run() handles the way the session ended.
SessionExit ==
    /\ sup_pc = "session"
    /\ \A t \in TaskNames : tg[t] \in Finished
    /\ LET outcome == TaskGroupOutcome(tg, cancel = "delivered")
       IN  /\ ended_by' = IF outcome = "CancelledError" THEN "cancelled"
                          ELSE IF outcome = "returned" THEN "returned"
                          ELSE IF close_code = RotationCode THEN "rotation"
                          ELSE "failure"
           /\ HandleEnd(outcome)
    /\ ws' = "closed"
    /\ UNCHANGED <<cfg, in_stream, cap, pump_task, out_stream, close_code,
                   tg, age_s, cancel>>
    /\ UNCHANGED sessVars
    /\ UNCHANGED capVars
    /\ UNCHANGED sinkVars
    /\ UNCHANGED logVars
    /\ UNCHANGED convVars
    /\ UNCHANGED unitVars

\* run(): asyncio.sleep(backoff_s) is over; double, reconnect.
SleepDone ==
    /\ sup_pc = "sleeping"
    /\ backoff_ms' = NextBackoff(backoff_ms)
    /\ sup_pc' = "connecting"
    /\ UNCHANGED <<cfg, loop_pc, loop_exc, in_stream, cap, pump_task,
                   out_stream, ws, close_code, tg, sleep_ms, age_s, failures,
                   ended_by, cancel>>
    /\ UNCHANGED sessVars
    /\ UNCHANGED capVars
    /\ UNCHANGED sinkVars
    /\ UNCHANGED logVars
    /\ UNCHANGED convVars
    /\ UNCHANGED unitVars

\* External shutdown: the task of run() is cancelled at the await it is in.
ExternalCancel ==
    /\ loop_pc = "supervising"
    /\ cancel = "none"
    /\ cancel' = "delivered"
    /\ CASE sup_pc = "connecting" ->
              /\ HandleEnd("CancelledError")
              /\ UNCHANGED tg
         [] sup_pc = "sleeping" ->
              /\ SupRaise
              /\ UNCHANGED tg
         [] OTHER ->
              /\ sup_pc = "session"
              /\ tg' = Abort(tg)
              /\ UNCHANGED <<sup_pc, backoff_ms, sleep_ms, failures, loop_pc,
                             loop_exc>>
    /\ UNCHANGED <<cfg, in_stream, cap, pump_task, out_stream, ws, close_code,
                   age_s, ended_by>>
    /\ UNCHANGED sessVars
    /\ UNCHANGED capVars
    /\ UNCHANGED sinkVars
    /\ UNCHANGED logVars
    /\ UNCHANGED convVars
    /\ UNCHANGED unitVars

\* AudioOutputSink.__aexit__ -> stop.
ExitPlayback ==
    /\ loop_pc = "exit_playback"
    /\ out_stream' = IF out_stream = "none" THEN "none" ELSE "closed"
    /\ loop_pc' = "exit_capture"
    /\ UNCHANGED <<cfg, loop_exc, in_stream, cap, pump_task, ws, close_code,
                   sup_pc, tg, backoff_ms, sleep_ms, age_s, failures,
                   ended_by, cancel>>
    /\ UNCHANGED sessVars
    /\ UNCHANGED capVars
    /\ UNCHANGED sinkVars
    /\ UNCHANGED logVars
    /\ UNCHANGED convVars
    /\ UNCHANGED unitVars

\* audio_in_cm.__aexit__: AudioInput.stop, or ProcessLoopbackInput.__aexit__,
\* where awaiting the pump task just cancelled raises CancelledError, which
\* `except Exception` lets through: the rest of __aexit__ is skipped.
ExitCapture ==
    /\ loop_pc = "exit_capture"
    /\ IF cfg.source = "mic"
         THEN /\ in_stream' = IF in_stream = "none" THEN "none" ELSE "closed"
              /\ UNCHANGED <<cap, pump_task, loop_exc>>
         ELSE IF pump_task = "running"
                THEN /\ pump_task' = "cancelled"
                     /\ loop_exc' = "CancelledError"
                     /\ UNCHANGED <<cap, in_stream>>
                ELSE /\ cap' = IF cap = "none" THEN "none" ELSE "closed"
                     /\ UNCHANGED <<pump_task, in_stream, loop_exc>>
    /\ loop_pc' = "exited"
    /\ UNCHANGED <<cfg, out_stream, ws, close_code, sup_pc, tg, backoff_ms,
                   sleep_ms, age_s, failures, ended_by, cancel>>
    /\ UNCHANGED sessVars
    /\ UNCHANGED capVars
    /\ UNCHANGED sinkVars
    /\ UNCHANGED logVars
    /\ UNCHANGED convVars
    /\ UNCHANGED unitVars

SupNext ==
    \/ Validate
    \/ \E o \in StartOutcomes : EnterCapture(o)
    \/ \E o \in StartOutcomes : EnterPlayback(o)
    \/ PumpEnds
    \/ \E ok \in BOOLEAN : Connect(ok)
    \/ SessionTick
    \/ TimerFires
    \/ RemoteClose
    \/ ReceiverLoopEnds
    \/ ReceiverRaises
    \/ SenderFails
    \/ SessionExit
    \/ SleepDone
    \/ ExternalCancel
    \/ ExitPlayback
    \/ ExitCapture

\* ============================== capture queue and _sender (CapSpec)
\* PCM is a sequence of signed 16-bit samples, interleaved by channel; a
\* base64 text is the sequence of its alphabet indices, Pad standing for "=".
DeviceRateHz   == 48000   \* audio.input.sample_rate, STANDARD_SAMPLE_RATE
WireRateHz     == 16000   \* input_sample_rate_hz
WireChannels   == 1       \* input_channels
Pad            == 64

CaptureSources == {"mic", "process_loopback", "loopback"}

\* audio_in.channels: audio.input.channels for the microphone,
\* STANDARD_CHANNELS for the process loopback.
InChannels(source) == IF source = "mic" THEN 1 ELSE 2

\* The k-th chunk the capture produces.
Chunk(k, channels) ==
    [i \in 1..(FramesPerChunk * channels) |->
        IF channels = 1 \/ i % 2 = 1 THEN 256 * k + i ELSE 0 - (k + 2 * i) - 1]

RECURSIVE Gcd(_, _)
Gcd(a, b) == IF b = 0 THEN a ELSE Gcd(b, a % b)

TruncDiv(a, b) == IF a >= 0 THEN a \div b ELSE 0 - ((0 - a) \div b)

\* audioop.tomono(data, w, 0.5, 0.5)
tomono(data) ==
    [i \in 1..(Len(data) \div 2) |-> (data[2 * i - 1] + data[2 * i]) \div 2]

\* audioop keeps 16-bit samples shifted left by 16 bits while it interpolates.
Scale == 65536

\* audioop.ratecv on one channel: the loop over the input samples, d the
\* phase, prev and cur the last two input samples. The interpolated value is
\* cast to int (towards zero) and shifted back (towards minus infinity).
RECURSIVE ratecv_loop(_, _, _, _, _, _, _, _)
ratecv_loop(data, i, inrate, outrate, d, prev, cur, out) ==
    IF d < 0
      THEN IF i > Len(data)
             THEN [out |-> out, state |-> [d |-> d, prev |-> prev, cur |-> cur]]
             ELSE ratecv_loop(data, i + 1, inrate, outrate, d + outrate,
                              cur, data[i], out)
      ELSE ratecv_loop(data, i, inrate, outrate, d - inrate, prev, cur,
                       Append(out,
                              TruncDiv(Scale * (prev * d + cur * (outrate - d)),
                                       outrate) \div Scale))

\* The samples of channel c of interleaved data.
Channel(data, nchannels, c) ==
    [k \in 1..(Len(data) \div nchannels) |-> data[(k - 1) * nchannels + c]]

\* audioop.ratecv without its state argument: every call starts afresh.
ratecv_Stateless(data, nchannels, inrate, outrate, state) ==
    LET g    == Gcd(inrate, outrate)
        r(c) == ratecv_loop(Channel(data, nchannels, c), 1, inrate \div g,
                            outrate \div g, 0 - (outrate \div g), 0, 0, <<>>)
        nout == Len(r(1).out)
    IN  [out |-> [i \in 1..(nout * nchannels) |->
                     r(((i - 1) % nchannels) + 1).out[((i - 1) \div nchannels) + 1]],
         state |-> <<[d |-> r(1).state.d,
                      chans |-> [c \in 1..nchannels |->
                                    [prev |-> r(c).state.prev,
                                     cur |-> r(c).state.cur]]]>>]

\* audioop.ratecv(data, w, nchannels, inrate, outrate, state): the channels
\* share the phase d and keep their own prev and cur.
ratecv(data, nchannels, inrate, outrate, state) ==
    LET g    == Gcd(inrate, outrate)
        st   == IF state = <<>>
                  THEN [d |-> 0 - (outrate \div g),
                        chans |-> [c \in 1..nchannels |->
                                      [prev |-> 0, cur |-> 0]]]
                  ELSE state[1]
        r(c) == ratecv_loop(Channel(data, nchannels, c), 1, inrate \div g,
                            outrate \div g, st.d, st.chans[c].prev,
                            st.chans[c].cur, <<>>)
        nout == Len(r(1).out)
    IN  [out |-> [i \in 1..(nout * nchannels) |->
                     r(((i - 1) % nchannels) + 1).out[((i - 1) \div nchannels) + 1]],
         state |-> <<[d |-> r(1).state.d,
                      chans |-> [c \in 1..nchannels |->
                                    [prev |-> r(c).state.prev,
                                     cur |-> r(c).state.cur]]]>>]

\* audioop.tostereo(data, w, 1.0, 1.0)
tostereo(data) == [i \in 1..(2 * Len(data)) |-> data[(i + 1) \div 2]]

\* in_converter of _run_one_session: None when the capture already has the
\* wire format.
HasInConverter(source) ==
    DeviceRateHz # WireRateHz \/ InChannels(source) # WireChannels

SupportedChannels == {1, 2}

ValueError(c) == [raised |-> "ValueError", out |-> <<>>, state |-> c.state]

\* PcmRateConverter.convert on a converter c: what the call returns or
\* raises, and the _state it leaves.
PcmRateConverter_convert(c, data) ==
    IF data = <<>>
      THEN [raised |-> "none", out |-> <<>>, state |-> c.state]
    ELSE IF c.in_channels \notin SupportedChannels THEN ValueError(c)
    ELSE IF c.out_channels \notin SupportedChannels THEN ValueError(c)
    ELSE IF /\ ~(c.in_channels = 2 /\ c.out_channels = 1)
            /\ ~(c.in_channels = 1 /\ c.out_channels = 2)
            /\ c.in_channels # c.out_channels
      THEN ValueError(c)
    ELSE LET mapped == IF c.in_channels = 2 /\ c.out_channels = 1
                         THEN tomono(data)
                       ELSE IF c.in_channels = 1 /\ c.out_channels = 2
                         THEN tostereo(data)
                       ELSE data
         IN  IF c.in_sample_rate_hz = c.out_sample_rate_hz
               THEN [raised |-> "none", out |-> mapped, state |-> c.state]
               ELSE LET r == ratecv(mapped, c.out_channels,
                                    c.in_sample_rate_hz,
                                    c.out_sample_rate_hz, c.state)
                    IN  [raised |-> "none", out |-> r.out, state |-> r.state]

\* in_converter.convert(chunk) of _sender, on the converter of the session.
convert(source, data, state) ==
    LET r == PcmRateConverter_convert(
                 [in_channels |-> InChannels(source),
                  out_channels |-> WireChannels,
                  in_sample_rate_hz |-> DeviceRateHz,
                  out_sample_rate_hz |-> WireRateHz,
                  state |-> state], data)
    IN  [out |-> r.out, state |-> r.state]

\* The bytes of PCM16LE samples.
RECURSIVE Pcm16Bytes(_)
Pcm16Bytes(samples) ==
    IF samples = <<>> THEN <<>>
    ELSE LET u == Head(samples) % 65536
         IN  <<u % 256, u \div 256>> \o Pcm16Bytes(Tail(samples))

\* base64.b64encode
RECURSIVE b64encode(_)
b64encode(bytes) ==
    IF Len(bytes) = 0 THEN <<>>
    ELSE IF Len(bytes) = 1
      THEN LET n == bytes[1] * 16
           IN  <<n \div 64, n % 64, Pad, Pad>>
    ELSE IF Len(bytes) = 2
      THEN LET n == (bytes[1] * 256 + bytes[2]) * 4
           IN  <<n \div 4096, (n \div 64) % 64, n % 64, Pad>>
    ELSE LET n == bytes[1] * 65536 + bytes[2] * 256 + bytes[3]
         IN  <<n \div 262144, (n \div 4096) % 64, (n \div 64) % 64, n % 64>>
             \o b64encode(SubSeq(bytes, 4, Len(bytes)))

CapInit ==
    /\ q = <<>>
    /\ produced = 0
    /\ dropped = 0
    /\ sender_pc = "pull"
    /\ chunk = <<>>
    /\ last_pull = "none"
    /\ rc_state = <<>>
    /\ pulled = <<>>
    /\ appended = <<>>

\* put_nowait; on a full queue drop the oldest chunk, then put.
PutDropOldest(queue, c) ==
    IF Len(queue) < QueueMaxChunks THEN Append(queue, c)
    ELSE Append(Tail(queue), c)

\* AudioInput.start._callback: the device delivers one block.
MicCallback ==
    /\ cfg.source = "mic"
    /\ in_stream = "started"
    /\ produced < MaxProduced
    /\ produced' = produced + 1
    /\ q' = PutDropOldest(q, Chunk(produced + 1, InChannels(cfg.source)))
    /\ dropped' = IF Len(q) < QueueMaxChunks THEN dropped ELSE dropped + 1
    /\ UNCHANGED <<sender_pc, chunk, last_pull, rc_state, pulled, appended>>
    /\ UNCHANGED <<sessVars, supVars>>
    /\ UNCHANGED sinkVars
    /\ UNCHANGED logVars
    /\ UNCHANGED convVars
    /\ UNCHANGED unitVars

\* ProcessLoopbackInput._pump: one chunk of target_bytes is cut off buf.
PumpPut ==
    /\ cfg.source # "mic"
    /\ pump_task = "running"
    /\ produced < MaxProduced
    /\ produced' = produced + 1
    /\ q' = PutDropOldest(q, Chunk(produced + 1, InChannels(cfg.source)))
    /\ UNCHANGED <<dropped, sender_pc, chunk, last_pull, rc_state, pulled,
                   appended>>
    /\ UNCHANGED <<sessVars, supVars>>
    /\ UNCHANGED sinkVars
    /\ UNCHANGED logVars
    /\ UNCHANGED convVars
    /\ UNCHANGED unitVars

\* _sender: chunk = await audio_in.get_chunk(timeout_s=0.2).  AudioInput
\* defines no get_chunk: the attribute lookup raises AttributeError.
SenderGetChunk ==
    /\ sender_pc = "pull"
    /\ tg["_sender"] = "running"
    /\ IF cfg.source = "mic"
         THEN /\ last_pull' = "AttributeError"
              /\ sender_pc' = "failed"
              /\ UNCHANGED <<q, chunk, pulled>>
         ELSE IF q = <<>>
           THEN /\ last_pull' = "timeout"
                /\ UNCHANGED <<q, chunk, pulled, sender_pc>>
           ELSE /\ last_pull' = "chunk"
                /\ chunk' = Head(q)
                /\ q' = Tail(q)
                /\ pulled' = Append(pulled, Head(q))
                /\ sender_pc' = "send"
    /\ UNCHANGED <<produced, dropped, rc_state, appended>>
    /\ UNCHANGED <<sessVars, supVars>>
    /\ UNCHANGED sinkVars
    /\ UNCHANGED logVars
    /\ UNCHANGED convVars
    /\ UNCHANGED unitVars

\* _sender: convert, base64, send input_audio_buffer.append.
SenderSend ==
    /\ sender_pc = "send"
    /\ LET c == IF HasInConverter(cfg.source)
                  THEN convert(cfg.source, chunk, rc_state)
                  ELSE [out |-> chunk, state |-> rc_state]
       IN  /\ appended' = Append(appended, b64encode(Pcm16Bytes(c.out)))
           /\ rc_state' = c.state
    /\ sender_pc' = "pull"
    /\ UNCHANGED <<q, produced, dropped, chunk, last_pull, pulled>>
    /\ UNCHANGED <<sessVars, supVars>>
    /\ UNCHANGED sinkVars
    /\ UNCHANGED logVars
    /\ UNCHANGED convVars
    /\ UNCHANGED unitVars

CapNext ==
    \/ MicCallback
    \/ PumpPut
    \/ SenderGetChunk
    \/ SenderSend

\* =============================== the playback sink on its own (SinkSpec)
\* Calls on the sink from the event loop (append_pcm16, flush,
\* next_play_started) interleaved with the steps of the device callback.
SinkOpInit ==
    sink_op = [op |-> "none", ret |-> 0, refilled |-> FALSE, pending |-> 0,
               issued_pre |-> {}, issued_post |-> {}]

\* Lengths of an appended block: empty, below one frame, one frame, one
\* frame and a remainder.
AppendLens == 0..(SinkFrameBytes + 1)

\* audio_out.append_pcm16(pcm16) with n bytes.
SinkAppend(n) ==
    /\ audio_out.play_epoch < MaxEpoch
    /\ Len(audio_out.buf) + Len(audio_out.tail) + n <= MaxBufBytes
    /\ LET res == append_pcm16(audio_out, Payload("T1", n))
       IN  /\ audio_out' = res.sink
           /\ sink_op' = [sink_op EXCEPT
                  !.op = "append",
                  !.ret = res.epoch,
                  !.refilled = audio_out.buf = <<>> /\ res.sink.buf # <<>>,
                  !.pending = pending_bytes(audio_out),
                  !.issued_post = IF res.epoch # NoEpoch
                                    THEN @ \cup {res.epoch} ELSE @]
    /\ UNCHANGED <<now, session, active_response_id, recv_active_response_id,
                   cancelled_response_ids, last_cancel_ms, turns,
                   epoch_to_turn, pcm_tail, misaligned_chunks, sent, cb,
                   open_responses, barge, received>>
    /\ UNCHANGED <<supVars, capVars, logVars, convVars, unitVars>>

\* audio_out.flush()
SinkFlush ==
    /\ audio_out.play_epoch < MaxEpoch
    /\ LET res == flush(audio_out)
       IN  /\ audio_out' = res.sink
           /\ sink_op' = [sink_op EXCEPT
                  !.op = "flush",
                  !.ret = res.dropped,
                  !.refilled = FALSE,
                  !.pending = pending_bytes(audio_out),
                  !.issued_pre = @ \cup sink_op.issued_post,
                  !.issued_post = {}]
    /\ UNCHANGED <<now, session, active_response_id, recv_active_response_id,
                   cancelled_response_ids, last_cancel_ms, turns,
                   epoch_to_turn, pcm_tail, misaligned_chunks, sent, cb,
                   open_responses, barge, received>>
    /\ play_log' = IF play_log.on
                     THEN [play_log EXCEPT !.flushed = play_log.serial,
                                           !.flush_pos = Len(play_log.emitted),
                                           !.dropped =
                                               @ + flush(audio_out).dropped]
                     ELSE play_log
    /\ UNCHANGED <<supVars, capVars, logVars, convVars, playOthers>>

\* await audio_out.next_play_started()
SinkNextPlayStarted ==
    /\ audio_out.play_started_q # <<>>
    /\ audio_out' = [audio_out EXCEPT !.play_started_q = Tail(@)]
    /\ sink_op' = [sink_op EXCEPT !.op = "next_play_started",
                                  !.ret = Head(audio_out.play_started_q),
                                  !.refilled = FALSE]
    /\ UNCHANGED <<now, session, active_response_id, recv_active_response_id,
                   cancelled_response_ids, last_cancel_ms, turns,
                   epoch_to_turn, pcm_tail, misaligned_chunks, sent, cb,
                   open_responses, barge, received>>
    /\ UNCHANGED <<supVars, capVars, logVars, convVars, unitVars>>

SinkNext ==
    \/ \E n \in AppendLens : SinkAppend(n)
    \/ SinkFlush
    \/ SinkNextPlayStarted
    \/ \E f \in CallbackFrames : CbTake(f)
    \/ CbMark
    \/ CbCheck
    \/ CbRead
    \/ CbSignal
    \/ Tick

\* ================================================ one turn (TurnSpec)
\* The events of one turn T1 answered by response R1, which is never
\* cancelled: audio of the turn before it (T2) may still be playing, then
\* speech_stopped for T1, then its audio deltas. The device callback and
\* _play_tracker run throughout.
TurnStarted == "T1" \in DOMAIN turns

PriorAudioDelta(n) ==
    /\ ~TurnStarted
    /\ RecvAudioDelta("R1", "T2", Payload("T2", n))

TurnSpeechStopped ==
    /\ ~TurnStarted
    /\ RecvSpeechStopped("T1")

TurnAudioDelta(n) ==
    /\ TurnStarted
    /\ RecvAudioDelta("R1", "T1", Payload("T1", n))

TurnNext ==
    \/ \E n \in DeltaLens : PriorAudioDelta(n)
    \/ TurnSpeechStopped
    \/ \E n \in DeltaLens : TurnAudioDelta(n)
    \/ \E f \in CallbackFrames : CbTake(f)
    \/ CbMark
    \/ CbCheck
    \/ CbRead
    \/ CbSignal
    \/ PlayTracker
    \/ Tick

\* The stream invokes the callback once per block for as long as it is open,
\* and a callback that has started runs to its end; the event loop runs
\* _play_tracker whenever a marker is queued.
TurnFairness ==
    /\ WF_vars(\E f \in CallbackFrames : CbTake(f))
    /\ WF_vars(CbMark)
    /\ WF_vars(CbCheck)
    /\ WF_vars(CbRead)
    /\ WF_vars(CbSignal)
    /\ WF_vars(PlayTracker)

\* ================================== one converter on its own (ConvSpec)
\* A caller builds a PcmRateConverter and passes it two chunks in order.
ConvChannels == 1..(MaxChannels + 1)

ConvRates == {16000, 24000, 48000}

ConvSamples == {-5, 8}

SeqsUpTo(S, n) == UNION {[1..k -> S] : k \in 0..n}

\* No converter in use.
ConvIdle ==
    /\ pcm_conv = [in_channels |-> 1, out_channels |-> 1,
                   in_sample_rate_hz |-> 16000, out_sample_rate_hz |-> 16000,
                   state |-> <<>>]
    /\ conv_feed = <<>>
    /\ conv_calls = <<>>

\* PcmRateConverter(...) with _state = None, and two chunks of whole frames.
ConvInit ==
    /\ \E ic \in ConvChannels, oc \in ConvChannels,
          ir \in ConvRates, orate \in ConvRates :
          pcm_conv = [in_channels |-> ic, out_channels |-> oc,
                      in_sample_rate_hz |-> ir, out_sample_rate_hz |-> orate,
                      state |-> <<>>]
    /\ \E a \in SeqsUpTo(ConvSamples, MaxConvSamples),
          b \in SeqsUpTo(ConvSamples, MaxConvSamples) :
          /\ Len(a) % pcm_conv.in_channels = 0
          /\ Len(b) % pcm_conv.in_channels = 0
          /\ conv_feed = <<a, b>>
    /\ conv_calls = <<>>

\* converter.convert(data) with the next chunk.
ConvConvert ==
    /\ conv_feed # <<>>
    /\ LET data == Head(conv_feed)
           r    == PcmRateConverter_convert(pcm_conv, data)
       IN  /\ pcm_conv' = [pcm_conv EXCEPT !.state = r.state]
           /\ conv_calls' = Append(conv_calls,
                  [data |-> data, raised |-> r.raised, out |-> r.out])
    /\ conv_feed' = Tail(conv_feed)
    /\ UNCHANGED <<sessVars, supVars, capVars, sinkVars, logVars, unitVars>>

ConvNext == ConvConvert

\* ====================================== outbound event ids (EvSpec)
\* The three send sites of a session: session.update once after connecting,
\* then response.cancel and input_audio_buffer.append in any order, each with
\* a fresh _event_id().  random.randint is a free choice of the suffix.
RandSuffixes == RandMin..(RandMin + MaxSuffixes - 1)

DigitChar == <<"0", "1", "2", "3", "4", "5", "6", "7", "8", "9">>

\* str(n) for n >= 0, as a sequence of characters.
RECURSIVE Str(_)
Str(n) ==
    IF n < 10 THEN <<DigitChar[n + 1]>>
    ELSE Str(n \div 10) \o <<DigitChar[(n % 10) + 1]>>

\* f"event_{monotonic_ms()}_{random.randint(1000, 9999)}"
_event_id(ms, r) ==
    <<"e", "v", "e", "n", "t", "_">> \o Str(ms) \o <<"_">> \o Str(r)

EvInit == event_ids = <<>>

EvIdle == event_ids = <<>>

LaterEventTypes == {"response.cancel", "input_audio_buffer.append"}

SendSessionUpdate ==
    /\ event_ids = <<>>
    /\ \E r \in RandSuffixes :
          event_ids' = <<[type |-> "session.update",
                          event_id |-> _event_id(now, r)]>>
    /\ UNCHANGED evRest

SendEvent(type) ==
    /\ event_ids # <<>>
    /\ Len(event_ids) < MaxEvents
    /\ \E r \in RandSuffixes :
          event_ids' = Append(event_ids,
                              [type |-> type, event_id |-> _event_id(now, r)])
    /\ UNCHANGED evRest

\* monotonic_ms() moves on between two sends, or does not.
EvTick ==
    /\ Tick
    /\ UNCHANGED evVars

EvNext ==
    \/ SendSessionUpdate
    \/ \E type \in LaterEventTypes : SendEvent(type)
    \/ EvTick


\* ============================ the energy segmenter on its own (VadSpec)
\* (energy_threshold * 32768)^2 for the default energy_threshold = 0.02, as
\* the fraction 2^28 / 625.
ThresholdSqNum == 268435456
ThresholdSqDen == 625

RECURSIVE SumSq(_)
SumSq(pcm) ==
    IF pcm = <<>> THEN 0 ELSE Head(pcm) * Head(pcm) + SumSq(Tail(pcm))

\* rms_energy_int16le(pcm) >= energy_threshold, on the samples of pcm:
\* sqrt(ss / n) / 32768 >= 0.02 iff ss * 625 >= 2^28 * n.
is_speech(pcm) ==
    /\ pcm # <<>>
    /\ SumSq(pcm) >=
          (ThresholdSqNum * Len(pcm) + ThresholdSqDen - 1) \div ThresholdSqDen

\* int(ms * sr / 1000)
MsToFrames(ms, sr) == (ms * sr) \div 1000

\* EnergyVadSegmenter.reset
reset(v) ==
    [v EXCEPT !.in_utt = FALSE, !.buf = <<>>, !.frames_total = 0,
              !.last_voice_frame = 0]

\* push that returns the whole buffer, trailing silence included.
push_KeepAll(v, pcm, frames) ==
    IF frames <= 0 THEN [kind |-> "none", seg |-> <<>>, vad |-> v]
    ELSE IF 2 * Len(pcm) < frames * 2 * v.channels
      THEN [kind |-> "ValueError", seg |-> <<>>, vad |-> v]
    ELSE IF ~v.in_utt /\ ~is_speech(pcm)
      THEN [kind |-> "none", seg |-> <<>>, vad |-> v]
    ELSE
      LET v1 == IF ~v.in_utt
                  THEN [v EXCEPT !.in_utt = TRUE, !.buf = pcm,
                                 !.frames_total = frames,
                                 !.last_voice_frame = frames]
                  ELSE [v EXCEPT !.buf = @ \o pcm,
                                 !.frames_total = @ + frames,
                                 !.last_voice_frame =
                                     IF is_speech(pcm)
                                       THEN v.frames_total + frames ELSE @]
          silence_frames == MsToFrames(v.p.silence_duration_ms, v.sr)
          min_speech_frames == MsToFrames(v.p.min_speech_duration_ms, v.sr)
          max_frames == MsToFrames(v.p.max_utterance_ms, v.sr)
          silence_since_voice == v1.frames_total - v1.last_voice_frame
          should_stop_by_silence ==
              silence_frames > 0 /\ silence_since_voice >= silence_frames
          should_stop_by_max ==
              max_frames > 0 /\ v1.frames_total >= max_frames
          voice_frames == v1.last_voice_frame
      IN  IF ~(should_stop_by_silence \/ should_stop_by_max)
            THEN [kind |-> "none", seg |-> <<>>, vad |-> v1]
          ELSE IF voice_frames < min_speech_frames
            THEN [kind |-> "none", seg |-> <<>>, vad |-> reset(v1)]
          ELSE [kind |-> "segment",
                seg |-> <<[pcm |-> v1.buf,
                           sample_rate |-> v.sr,
                           duration_ms |-> (voice_frames * 1000) \div v.sr]>>,
                vad |-> reset(v1)]

\* EnergyVadSegmenter.push(pcm=pcm, frames=frames): what it returns or raises
\* and the segmenter it leaves.  pcm is a sequence of 16-bit samples.
push(v, pcm, frames) ==
    IF frames <= 0 THEN [kind |-> "none", seg |-> <<>>, vad |-> v]
    ELSE IF 2 * Len(pcm) < frames * 2 * v.channels
      THEN [kind |-> "ValueError", seg |-> <<>>, vad |-> v]
    ELSE IF ~v.in_utt /\ ~is_speech(pcm)
      THEN [kind |-> "none", seg |-> <<>>, vad |-> v]
    ELSE
      LET v1 == IF ~v.in_utt
                  THEN [v EXCEPT !.in_utt = TRUE, !.buf = pcm,
                                 !.frames_total = frames,
                                 !.last_voice_frame = frames]
                  ELSE [v EXCEPT !.buf = @ \o pcm,
                                 !.frames_total = @ + frames,
                                 !.last_voice_frame =
                                     IF is_speech(pcm)
                                       THEN v.frames_total + frames ELSE @]
          silence_frames == MsToFrames(v.p.silence_duration_ms, v.sr)
          min_speech_frames == MsToFrames(v.p.min_speech_duration_ms, v.sr)
          max_frames == MsToFrames(v.p.max_utterance_ms, v.sr)
          silence_since_voice == v1.frames_total - v1.last_voice_frame
          should_stop_by_silence ==
              silence_frames > 0 /\ silence_since_voice >= silence_frames
          should_stop_by_max ==
              max_frames > 0 /\ v1.frames_total >= max_frames
          voice_frames == v1.last_voice_frame
      IN  IF ~(should_stop_by_silence \/ should_stop_by_max)
            THEN [kind |-> "none", seg |-> <<>>, vad |-> v1]
          ELSE IF voice_frames < min_speech_frames
            THEN [kind |-> "none", seg |-> <<>>, vad |-> reset(v1)]
          ELSE [kind |-> "segment",
                seg |-> <<[pcm |-> SubSeq(v1.buf, 1,
                                          voice_frames * v.channels),
                           sample_rate |-> v.sr,
                           duration_ms |-> (voice_frames * 1000) \div v.sr]>>,
                vad |-> reset(v1)]

VadRates == {1500, 2000}
SilenceDurationsMs == {0, 1}
MinSpeechDurationsMs == {0, 1}
MaxUtterancesMs == {0, 2}

\* Samples of a block: silence, just below and just above the threshold.
VadSamples == {0, 655, 656}

\* Frames of a block the capture delivers.
BlockFrames == {0, 1, 2}

\* EnergyVadSegmenter(sample_rate=sr, channels=1, params=VadParams(...))
NewSegmenter(sr, p) ==
    [sr |-> sr, channels |-> 1, p |-> p, in_utt |-> FALSE, buf |-> <<>>,
     frames_total |-> 0, last_voice_frame |-> 0]

VadOpInit ==
    /\ vad_utt = <<>>
    /\ vad_op = [n |-> 0, out |-> <<>>, utt |-> <<>>, voiced_ever |-> FALSE,
                 emitted |-> 0]

VadIdle ==
    /\ vad = NewSegmenter(2000,
                [silence_duration_ms |-> 0, min_speech_duration_ms |-> 0,
                 max_utterance_ms |-> 0])
    /\ VadOpInit

VadInit ==
    /\ \E sr \in VadRates, s \in SilenceDurationsMs,
          m \in MinSpeechDurationsMs, x \in MaxUtterancesMs :
          vad = NewSegmenter(sr,
                    [silence_duration_ms |-> s, min_speech_duration_ms |-> m,
                     max_utterance_ms |-> x])
    /\ VadOpInit

\* MicrophoneAudioCapture.next_segment: one block goes through push.
VadPush(pcm) ==
    /\ vad_op.n < MaxPushes
    /\ LET frames == Len(pcm) \div vad.channels
           r      == push(vad, pcm, frames)
           block  == [pcm |-> pcm, frames |-> frames,
                      speech |-> is_speech(pcm)]
           cur    == IF frames <= 0 THEN vad_utt
                     ELSE IF vad_utt = <<>>
                       THEN IF block.speech THEN <<block>> ELSE <<>>
                     ELSE Append(vad_utt, block)
       IN  /\ vad' = r.vad
           /\ vad_utt' = IF r.vad.in_utt THEN cur ELSE <<>>
           /\ vad_op' = [n |-> vad_op.n + 1,
                         out |-> r.seg,
                         utt |-> cur,
                         voiced_ever |-> vad_op.voiced_ever \/ block.speech,
                         emitted |-> vad_op.emitted +
                                       (IF r.kind = "segment" THEN 1 ELSE 0)]
    /\ UNCHANGED vadRest

VadNext == \E pcm \in SeqsUpTo(VadSamples, 2) : VadPush(pcm)


\* ================================== the tool policy on its own (PolicySpec)
\* Readings of time.time() per second: the clock is read in half seconds.
TicksPerSecond == 2

ToolNames == {"tool", "other"}

\* Entries a configured whitelist may hold; "" is dropped by __init__.
WhitelistEntries == {"", "tool", "other"}

\* calls_per_second values of tools.rate_limit; 0 is an invalid one.
CallsPerSecond == {0, 1, 2}

\* RateLimiter.__init__: the interval 1.0 / calls_per_second, in ticks.
RateLimiter(calls_per_second) ==
    [interval |-> TicksPerSecond \div calls_per_second, next_allowed_ts |-> 0]

\* RateLimiter.check that moves the next allowed time on a rejection too.
RateLimiter_check_Postpone(l, now_ts) ==
    IF now_ts < l.next_allowed_ts
      THEN [raised |-> "ToolRateLimitedError",
            limiter |-> [l EXCEPT !.next_allowed_ts = now_ts + l.interval]]
      ELSE [raised |-> "",
            limiter |-> [l EXCEPT !.next_allowed_ts = now_ts + l.interval]]

\* RateLimiter.check
RateLimiter_check(l, now_ts) ==
    IF now_ts < l.next_allowed_ts
      THEN [raised |-> "ToolRateLimitedError", limiter |-> l]
      ELSE [raised |-> "",
            limiter |-> [l EXCEPT !.next_allowed_ts = now_ts + l.interval]]

\* ToolPolicy.__init__: empty names are dropped from the whitelist, and a
\* limiter whose construction raises (calls_per_second <= 0) is left out.
ToolPolicy(enabled, whitelist, rate_limit) ==
    [enabled   |-> enabled,
     whitelist |-> {t \in whitelist : t # ""},
     rate_limiters |->
         [name \in {n \in DOMAIN rate_limit : n # "" /\ rate_limit[n] > 0}
             |-> RateLimiter(rate_limit[name])]]

\* ToolPolicy.check(tool_name) at the clock reading now_ts: what it raises
\* ("" when it returns) and the policy it leaves.
check(p, tool_name, now_ts) ==
    IF ~p.enabled
      THEN [raised |-> "ToolDisabledError", policy |-> p]
    ELSE IF p.whitelist # {} /\ tool_name \notin p.whitelist
      THEN [raised |-> "ToolNotAllowedError", policy |-> p]
    ELSE IF tool_name \in DOMAIN p.rate_limiters
      THEN LET r == RateLimiter_check(p.rate_limiters[tool_name], now_ts)
           IN  [raised |-> r.raised,
                policy |-> [p EXCEPT !.rate_limiters[tool_name] = r.limiter]]
    ELSE [raised |-> "", policy |-> p]

\* The tools.rate_limit tables tried: none, one tool, both tools.
RateLimitConfigs ==
    {<<>>} \cup [{"tool"} -> CallsPerSecond]
           \cup [ToolNames -> CallsPerSecond \ {0}]

PolOpInit ==
    /\ pol_now = 1
    /\ pol_allowed = [t \in ToolNames |-> <<>>]
    /\ pol_op = [done |-> FALSE, tool |-> "", raised |-> "", at |-> 0,
                 pre |-> policy, last_allowed |-> <<>>]

PolIdle ==
    /\ policy = ToolPolicy(TRUE, {}, <<>>)
    /\ PolOpInit

PolInit ==
    /\ \E enabled \in BOOLEAN, whitelist \in SUBSET WhitelistEntries,
          rate_limit \in RateLimitConfigs :
          policy = ToolPolicy(enabled, whitelist, rate_limit)
    /\ PolOpInit

\* One call of policy.check(tool_name).
PolCheck(tool_name) ==
    /\ LET r == check(policy, tool_name, pol_now)
       IN  /\ policy' = r.policy
           /\ pol_allowed' =
                 IF r.raised = ""
                   THEN [pol_allowed EXCEPT ![tool_name] = <<pol_now>>]
                   ELSE pol_allowed
           /\ pol_op' = [done |-> TRUE, tool |-> tool_name,
                         raised |-> r.raised, at |-> pol_now,
                         pre |-> policy,
                         last_allowed |-> pol_allowed[tool_name]]
    /\ UNCHANGED pol_now
    /\ UNCHANGED polRest

\* time.time() advances between two calls.
PolTick ==
    /\ pol_now < MaxPolTime
    /\ pol_now' = pol_now + 1
    /\ UNCHANGED <<policy, pol_allowed, pol_op>>
    /\ UNCHANGED polRest

PolNext ==
    \/ \E tool_name \in ToolNames : PolCheck(tool_name)
    \/ PolTick


\* =========================== what the device callbacks played (PlaySpec)
\* The sink of SinkSpec fed with bytes that carry the serial number of their
\* append and a value, and a record of what every callback put in outdata.
PlayLog(on) ==
    [on |-> on, serial |-> 0, appended |-> <<>>, flushed |-> 0,
     flush_pos |-> 0, dropped |-> 0, emitted |-> <<>>, want |-> 0,
     pre |-> <<>>, post |-> <<>>, outdata |-> <<>>, loud |-> FALSE,
     last_loud |-> NoneMs,
     marks |-> [on |-> FALSE, out |-> {}, by_epoch |-> EmptyMap]]

PlayIdle == play_log = PlayLog(FALSE)

PlayInit == play_log = PlayLog(TRUE)

\* The history of the play-start markers only: the turns whose bytes the
\* current callback took, and for each epoch signalled the turns whose bytes
\* the signalling callback had taken (MarkSpec).
MarkInit == play_log = [PlayLog(FALSE) EXCEPT !.marks.on = TRUE]

\* A block of n bytes, all silent (zero) or all loud, numbered from first.
PlayBlock(first, n, loud) ==
    [i \in 1..n |-> [n |-> first + i - 1, v |-> IF loud THEN 1 ELSE 0]]

\* audio_out.append_pcm16(pcm16) with a block of n numbered bytes.
PlayAppend(n, loud) ==
    /\ audio_out.play_epoch < MaxEpoch
    /\ play_log.serial + n <= MaxPlayBytes
    /\ LET block == PlayBlock(play_log.serial + 1, n, loud)
       IN  /\ audio_out' = append_pcm16(audio_out, block).sink
           /\ play_log' = [play_log EXCEPT !.serial = @ + n,
                                           !.appended = @ \o block]
    /\ UNCHANGED <<now, session, active_response_id, recv_active_response_id,
                   cancelled_response_ids, last_cancel_ms, turns,
                   epoch_to_turn, pcm_tail, misaligned_chunks, sent, cb,
                   open_responses, barge, received>>
    /\ UNCHANGED <<supVars, capVars, sinkVars, logVars, convVars, playOthers>>

PlayNext ==
    \/ \E n \in AppendLens, loud \in BOOLEAN : PlayAppend(n, loud)
    \/ SinkFlush
    \/ SinkNextPlayStarted
    \/ \E f \in CallbackFrames : CbTake(f)
    \/ CbMark
    \/ CbCheck
    \/ CbRead
    \/ CbSignal
    \/ Tick


\* ==================== what the receiver decoded and forwarded (AlignSpec)
\* The receive loop fed with audio deltas whose decoded bytes are numbered
\* in the order received, while barge-ins and the device callback go on.
AlignLog(on) ==
    [on |-> on, decoded |-> <<>>, forwarded |-> <<>>,
     last |-> [tail |-> 0, raw |-> 0, sent |-> 0],
     cut |-> [on |-> FALSE, at |-> 0]]

AlignIdle == align_log = AlignLog(FALSE)

AlignInit == align_log = AlignLog(TRUE)

\* The same history, with the number of bytes decoded before the last
\* barge-in flush (CutSpec).
CutInit == align_log = [AlignLog(TRUE) EXCEPT !.cut.on = TRUE]

\* response.audio.delta whose delta decodes to the next n numbered bytes.
AlignAudioDelta(response_id, item_id, n) ==
    RecvAudioDelta(response_id, item_id,
                   PlayBlock(Len(align_log.decoded) + 1, n, TRUE))

AlignNext ==
    \/ \E r \in ResponseIds, t \in TurnIds, n \in DeltaLens :
          AlignAudioDelta(r, t, n)
    \/ RecvSpeechStarted
    \/ \E f \in CallbackFrames : CbTake(f)
    \/ CbMark
    \/ CbCheck
    \/ CbRead
    \/ CbSignal
    \/ Tick


\* ================= deltas that are not sample aligned (WarnSpec)
\* The receive loop of AlignSpec fed with deltas of 1, 2 and 7 bytes.
WarnLens == {1, 2, 7}

\* logger.warning("audio_wire_chunk_not_sample_aligned") is called for the
\* first MaxWarnings misaligned chunks of a session.
MaxWarnings == 3

Warnings == Min(misaligned_chunks, MaxWarnings)

WarnAudioDelta(response_id, item_id, n) ==
    RecvAudioDeltaWithin(response_id, item_id,
                         PlayBlock(Len(align_log.decoded) + 1, n, TRUE),
                         MaxWarnBufBytes)

WarnNext ==
    \/ \E r \in ResponseIds, t \in TurnIds, n \in WarnLens :
          WarnAudioDelta(r, t, n)
    \/ \E f \in CallbackFrames : CbTake(f)
    \/ CbMark
    \/ CbCheck
    \/ CbRead
    \/ CbSignal
    \/ Tick


\* ===================== the process-loopback pump on its own (LoopSpec)
\* Raw bytes are [id, k, h]: byte k of 4 of the float32 sample number id,
\* whose value is h / 2.  PCM bytes are [id, k, v]: byte k of 2 of the int16
\* sample v converted from sample id.
LoopValues == {-4, 1, 2}

\* The float32 of four bytes: a sample's own when they are its bytes 1..4 in
\* order, some other number (id 0) when they are not.
F32(b) ==
    IF /\ \A i \in 1..4 : b[i].k = i
       /\ \A i \in 1..4 : b[i].id = b[1].id
      THEN [id |-> b[1].id, h |-> b[1].h]
      ELSE [id |-> 0, h |-> 0]

\* np.clip(arr, -1.0, 1.0), then (arr * 32767.0).astype("<i2")
I16(h) ==
    LET c == IF h < -2 THEN -2 ELSE IF h > 2 THEN 2 ELSE h
    IN  TruncDiv(c * 32767, 2)

\* i16.tobytes() of the samples of head
RECURSIVE F32ToPcm16(_)
F32ToPcm16(head) ==
    IF head = <<>> THEN <<>>
    ELSE LET f == F32(SubSeq(head, 1, 4))
         IN  <<[id |-> f.id, k |-> 1, v |-> I16(f.h)],
               [id |-> f.id, k |-> 2, v |-> I16(f.h)]>>
                 \o F32ToPcm16(SubSeq(head, 5, Len(head)))

\* float32le_to_pcm16le that returns no tail.
float32le_to_pcm16le_NoTail(raw, channels) ==
    IF raw = <<>> THEN [raised |-> "", pcm16 |-> <<>>, tail |-> <<>>]
    ELSE IF channels \notin {1, 2}
      THEN [raised |-> "ValueError", pcm16 |-> <<>>, tail |-> <<>>]
    ELSE LET frame_bytes_f32 == 4 * channels
             n == (Len(raw) \div frame_bytes_f32) * frame_bytes_f32
         IN  IF n <= 0 THEN [raised |-> "", pcm16 |-> <<>>, tail |-> <<>>]
             ELSE [raised |-> "",
                   pcm16 |-> F32ToPcm16(SubSeq(raw, 1, n)),
                   tail |-> <<>>]

\* float32le_to_pcm16le(raw, channels=channels): (pcm16_bytes, tail_bytes)
float32le_to_pcm16le(raw, channels) ==
    IF raw = <<>> THEN [raised |-> "", pcm16 |-> <<>>, tail |-> <<>>]
    ELSE IF channels \notin {1, 2}
      THEN [raised |-> "ValueError", pcm16 |-> <<>>, tail |-> <<>>]
    ELSE LET frame_bytes_f32 == 4 * channels
             n == (Len(raw) \div frame_bytes_f32) * frame_bytes_f32
         IN  IF n <= 0 THEN [raised |-> "", pcm16 |-> <<>>, tail |-> raw]
             ELSE [raised |-> "",
                   pcm16 |-> F32ToPcm16(SubSeq(raw, 1, n)),
                   tail |-> SubSeq(raw, n + 1, Len(raw))]

\* _pump: while len(buf) >= target_bytes: cut one chunk and put it, dropping
\* the oldest chunk of a full queue.
RECURSIVE CutChunks(_, _, _, _)
CutChunks(buf, target_bytes, queue, put) ==
    IF Len(buf) < target_bytes
      THEN [buf |-> buf, q |-> queue, put |-> put]
      ELSE CutChunks(SubSeq(buf, target_bytes + 1, Len(buf)), target_bytes,
                     PutDropOldest(queue, SubSeq(buf, 1, target_bytes)),
                     Append(put, SubSeq(buf, 1, target_bytes)))

\* The next n bytes the capture delivers after the bytes in raw; samples
\* that begin among them have the value h / 2.
RECURSIVE NextRaw(_, _, _)
NextRaw(raw, n, h) ==
    IF n = 0 THEN <<>>
    ELSE LET last == IF raw = <<>> THEN [id |-> 0, k |-> 4, h |-> 0]
                     ELSE raw[Len(raw)]
             byte == IF last.k < 4
                       THEN [id |-> last.id, k |-> last.k + 1, h |-> last.h]
                       ELSE [id |-> last.id + 1, k |-> 1, h |-> h]
         IN  <<byte>> \o NextRaw(<<byte>>, n - 1, h)

\* Sizes of the blocks iter_chunks yields: empty up to a stereo frame and one.
LoopBlockLens == 0..9

LoopChannels == {1, 2}

LoopFramesPerChunk == {1, 2}

NewPump(channels, frames_per_chunk) ==
    [channels |-> channels, frames_per_chunk |-> frames_per_chunk,
     raw_tail |-> <<>>, buf |-> <<>>, q |-> <<>>]

LoopLogInit == loop_log = [raw |-> <<>>, enqueued |-> <<>>, got |-> 0]

LoopIdle == loop = NewPump(2, 1) /\ LoopLogInit

LoopInit ==
    /\ \E channels \in LoopChannels, frames_per_chunk \in LoopFramesPerChunk :
          loop = NewPump(channels, frames_per_chunk)
    /\ LoopLogInit

\* _pump: one iteration of `async for raw in self._cap.iter_chunks()`.
LoopRaw(n, h) ==
    /\ Len(loop_log.raw) + n <= MaxLoopBytes
    /\ LET raw == NextRaw(loop_log.raw, n, h)
           out_frame_bytes == 2 * loop.channels
           target_bytes == loop.frames_per_chunk * out_frame_bytes
           r == float32le_to_pcm16le(loop.raw_tail \o raw, loop.channels)
           c == CutChunks(loop.buf \o r.pcm16, target_bytes, loop.q, <<>>)
       IN  /\ loop' = IF raw = <<>> THEN loop
                      ELSE [loop EXCEPT !.raw_tail = r.tail,
                                        !.buf = c.buf,
                                        !.q = c.q]
           /\ loop_log' = IF raw = <<>> THEN loop_log
                          ELSE [loop_log EXCEPT !.raw = @ \o raw,
                                                !.enqueued = @ \o c.put]
    /\ UNCHANGED loopRest

\* get_chunk: the sender takes the oldest chunk.
LoopGetChunk ==
    /\ loop.q # <<>>
    /\ loop' = [loop EXCEPT !.q = Tail(@)]
    /\ loop_log' = [loop_log EXCEPT !.got = @ + 1]
    /\ UNCHANGED loopRest

LoopNext ==
    \/ \E n \in LoopBlockLens, h \in LoopValues : LoopRaw(n, h)
    \/ LoopGetChunk


\* ============================= the outbound sends of one session (WireSpec)
\* The callers of _send: the handshake of _run_one_session, _sender, and
\* _cancel_active_response on the receiver's task.
Senders == {"_run_one_session", "_sender", "_receiver"}

NewWire ==
    [phase |-> "handshake",     \* "handshake" | "tasks" | "ended"
     locked |-> FALSE,          \* send_lock
     waiters |-> <<>>,          \* callers waiting for send_lock, oldest first
     in_flight |-> {},          \* the ws.send calls in progress
     pc |-> [t \in Senders |-> "idle"],
     started |-> 0,             \* calls of _send so far
     barge_ins |-> 0]           \* calls of _cancel_active_response so far

\* A _send that neither takes send_lock nor is awaited by its caller.
_send_Detached(w, who, typ) ==
    [w EXCEPT !.started = @ + 1,
              !.in_flight = @ \cup {[by |-> who, type |-> typ,
                                     n |-> w.started + 1]}]

\* async with send_lock: await ws.send(json.dumps(payload)).  The caller
\* enters ws.send when the lock is free and no one waits for it, and waits
\* its turn otherwise.
_send(w, who, typ) ==
    LET call == [by |-> who, type |-> typ, n |-> w.started + 1]
    IN  IF ~w.locked /\ w.waiters = <<>>
          THEN [w EXCEPT !.started = @ + 1,
                         !.locked = TRUE,
                         !.in_flight = @ \cup {call},
                         !.pc[who] = "sending"]
          ELSE [w EXCEPT !.started = @ + 1,
                         !.waiters = Append(@, call),
                         !.pc[who] = "waiting"]

\* Leaving `async with send_lock`: the lock is released and the oldest waiter
\* takes it and enters ws.send.
Release(w, who) ==
    LET left == [w EXCEPT !.in_flight = {c \in @ : c.by # who},
                          !.pc[who] = "idle"]
    IN  IF left.waiters = <<>>
          THEN [left EXCEPT !.locked = FALSE]
          ELSE [left EXCEPT !.waiters = Tail(@),
                            !.in_flight = @ \cup {Head(left.waiters)},
                            !.pc[Head(left.waiters).by] = "sending"]

\* The session is over: the tasks are cancelled, every caller leaves _send.
EndWire(w) ==
    [w EXCEPT !.phase = "ended", !.locked = FALSE, !.waiters = <<>>,
              !.in_flight = {}, !.pc = [t \in Senders |-> "idle"]]

WireIdle == wire = NewWire

WireInit == wire = NewWire

\* await _send({"type": "session.update", ...}), before the tasks exist.
WireHandshake ==
    /\ wire.phase = "handshake"
    /\ wire.pc["_run_one_session"] = "idle"
    /\ wire' = _send(wire, "_run_one_session", "session.update")
    /\ UNCHANGED wireRest

\* _sender: await _send({"type": "input_audio_buffer.append", ...})
WireAppend ==
    /\ wire.phase = "tasks"
    /\ wire.pc["_sender"] = "idle"
    /\ wire.started < MaxSends
    /\ wire' = _send(wire, "_sender", "input_audio_buffer.append")
    /\ UNCHANGED wireRest

\* _cancel_active_response past its debounce: response.cancel is sent for
\* the response the enclosing scope holds, if it holds one.
WireBargeIn ==
    /\ wire.phase = "tasks"
    /\ wire.pc["_receiver"] = "idle"
    /\ wire.barge_ins < MaxBargeIns
    /\ wire.started < MaxSends
    /\ LET w == [wire EXCEPT !.barge_ins = @ + 1]
       IN  wire' = IF active_response_id # None
                     THEN _send(w, "_receiver", "response.cancel")
                     ELSE w
    /\ UNCHANGED wireRest

\* ws.send returns or raises.  The handshake raising ends the session before
\* it began, _sender raising ends it through the task group, and
\* _cancel_active_response logs the exception and goes on.
WireSent(who, ok) ==
    /\ wire.pc[who] = "sending"
    /\ wire' = IF ok \/ who = "_receiver"
                 THEN [Release(wire, who) EXCEPT
                         !.phase = IF who = "_run_one_session"
                                     THEN "tasks" ELSE @]
                 ELSE EndWire(Release(wire, who))
    /\ UNCHANGED wireRest

\* The session ends for another reason (rotation, the remote closing).
WireEnds ==
    /\ wire.phase = "tasks"
    /\ wire' = EndWire(wire)
    /\ UNCHANGED wireRest

WireNext ==
    \/ WireHandshake
    \/ WireAppend
    \/ WireBargeIn
    \/ \E who \in Senders, ok \in BOOLEAN : WireSent(who, ok)
    \/ WireEnds


\* ============ events the receive loop only logs, among the others (InfoSpec)
\* "rate_limits.updated" stands for a type no branch of the loop names.
OtherEventTypes ==
    {"error", "session.created", "session.updated",
     "conversation.item.input_audio_transcription.completed",
     "response.audio_transcript.delta", "response.audio.done",
     "rate_limits.updated"}

\* A loop that an error event ends.
AfterLogged_ErrorEnds(typ) ==
    IF typ = "error" THEN "raise" ELSE "continue"

\* How the branch of an event of OtherEventTypes leaves the loop body: each
\* logs and continues, and the last statement of the body is the debug log.
AfterLogged(typ) == "continue"

InfoIdle == info_log = [n |-> 0, typ |-> None]

InfoInit == info_log = [n |-> 0, typ |-> None]

\* An event of one of OtherEventTypes is received.
RecvOther(typ) ==
    /\ RecvMsg
    /\ session' = IF AfterLogged(typ) = "continue" THEN session ELSE "failed"
    /\ info_log' = [n |-> info_log.n + 1, typ |-> typ]
    /\ UNCHANGED <<now, active_response_id, recv_active_response_id,
                   cancelled_response_ids, last_cancel_ms, turns,
                   epoch_to_turn, pcm_tail, misaligned_chunks, sent,
                   audio_out, cb, open_responses, barge>>
    /\ UNCHANGED supVars
    /\ UNCHANGED capVars
    /\ UNCHANGED sinkVars
    /\ UNCHANGED logVars
    /\ UNCHANGED convVars
    /\ UNCHANGED infoOthers

InfoNext ==
    \/ SessNext
    \/ \E typ \in OtherEventTypes : RecvOther(typ)

\* Every component modelled on its own is idle.
UnitIdle == EvIdle /\ VadIdle /\ PolIdle /\ PlayIdle /\ AlignIdle /\ LoopIdle /\ WireIdle /\ InfoIdle

\* ---------------------------------------------------------- specifications
Init ==
    SessInit /\ SupIdle /\ CapInit /\ SinkOpInit /\ LogInit /\ ConvIdle
        /\ UnitIdle

Next == SessNext

Spec == Init /\ [][Next]_vars

SupStart ==
    SupInit /\ SessInit /\ CapInit /\ SinkOpInit /\ LogInit /\ ConvIdle
        /\ UnitIdle

SupSpec == SupStart /\ [][SupNext]_vars

CapStart ==
    /\ SessInit
    /\ \E source \in CaptureSources : SupSession(source)
    /\ CapInit
    /\ SinkOpInit
    /\ LogInit
    /\ ConvIdle
    /\ UnitIdle

CapSpec == CapStart /\ [][CapNext]_vars

SinkStart ==
    SessInit /\ SupIdle /\ CapInit /\ SinkOpInit /\ LogInit /\ ConvIdle
        /\ UnitIdle

SinkSpec == SinkStart /\ [][SinkNext]_vars

TurnStart ==
    SessInit /\ SupIdle /\ CapInit /\ SinkOpInit /\ LogInit /\ ConvIdle
        /\ UnitIdle

TurnSpec == TurnStart /\ [][TurnNext]_vars /\ TurnFairness

ConvStart ==
    SessInit /\ SupIdle /\ CapInit /\ SinkOpInit /\ LogInit /\ ConvInit
        /\ UnitIdle

ConvSpec == ConvStart /\ [][ConvNext]_vars

EvStart ==
    SessInit /\ SupIdle /\ CapInit /\ SinkOpInit /\ LogInit /\ ConvIdle
        /\ EvInit /\ VadIdle /\ PolIdle /\ PlayIdle /\ AlignIdle /\ LoopIdle /\ WireIdle /\ InfoIdle

EvSpec == EvStart /\ [][EvNext]_vars

VadStart ==
    SessInit /\ SupIdle /\ CapInit /\ SinkOpInit /\ LogInit /\ ConvIdle
        /\ VadInit /\ EvIdle /\ PolIdle /\ PlayIdle /\ AlignIdle /\ LoopIdle /\ WireIdle /\ InfoIdle

VadSpec == VadStart /\ [][VadNext]_vars

PolStart ==
    SessInit /\ SupIdle /\ CapInit /\ SinkOpInit /\ LogInit /\ ConvIdle
        /\ PolInit /\ EvIdle /\ VadIdle /\ PlayIdle /\ AlignIdle /\ LoopIdle /\ WireIdle /\ InfoIdle

PolSpec == PolStart /\ [][PolNext]_vars

PlayStart ==
    SessInit /\ SupIdle /\ CapInit /\ SinkOpInit /\ LogInit /\ ConvIdle
        /\ PlayInit /\ EvIdle /\ VadIdle /\ PolIdle /\ AlignIdle /\ LoopIdle /\ WireIdle /\ InfoIdle

PlaySpec == PlayStart /\ [][PlayNext]_vars

MarkStart ==
    SessInit /\ SupIdle /\ CapInit /\ SinkOpInit /\ LogInit /\ ConvIdle
        /\ MarkInit /\ EvIdle /\ VadIdle /\ PolIdle /\ AlignIdle /\ LoopIdle /\ WireIdle /\ InfoIdle

MarkSpec == MarkStart /\ [][SessNext]_vars

AlignStart ==
    SessInit /\ SupIdle /\ CapInit /\ SinkOpInit /\ LogInit /\ ConvIdle
        /\ AlignInit /\ EvIdle /\ VadIdle /\ PolIdle /\ PlayIdle /\ LoopIdle /\ WireIdle /\ InfoIdle

AlignSpec == AlignStart /\ [][AlignNext]_vars

WarnSpec == AlignStart /\ [][WarnNext]_vars

CutStart ==
    SessInit /\ SupIdle /\ CapInit /\ SinkOpInit /\ LogInit /\ ConvIdle
        /\ CutInit /\ EvIdle /\ VadIdle /\ PolIdle /\ PlayIdle /\ LoopIdle /\ WireIdle /\ InfoIdle

CutSpec == CutStart /\ [][AlignNext]_vars

LoopStart ==
    SessInit /\ SupIdle /\ CapInit /\ SinkOpInit /\ LogInit /\ ConvIdle
        /\ LoopInit /\ EvIdle /\ VadIdle /\ PolIdle /\ PlayIdle /\ AlignIdle /\ WireIdle /\ InfoIdle

LoopSpec == LoopStart /\ [][LoopNext]_vars

WireStart ==
    SessInit /\ SupIdle /\ CapInit /\ SinkOpInit /\ LogInit /\ ConvIdle
        /\ WireInit /\ EvIdle /\ VadIdle /\ PolIdle /\ PlayIdle /\ AlignIdle /\ LoopIdle /\ InfoIdle

WireSpec == WireStart /\ [][WireNext]_vars

InfoStart ==
    SessInit /\ SupIdle /\ CapInit /\ SinkOpInit /\ LogInit /\ ConvIdle
        /\ InfoInit /\ EvIdle /\ VadIdle /\ PolIdle /\ PlayIdle /\ AlignIdle /\ LoopIdle /\ WireIdle

InfoSpec == InfoStart /\ [][InfoNext]_vars


\* ======================================================== barge-in (Spec)
NumCancels(s) == Count(s, "response.cancel")

\* C1: a speech_started received while response R is active, the agent is
\* speaking and no cancel was attempted in the last 400 ms adds R to the
\* cancelled set, sends one response.cancel, clears the active response,
\* flushes the sink and empties the epoch->turn map.
C1_BargeInCancelsActive ==
    [][ ( /\ RecvSpeechStarted
          /\ recv_active_response_id \in open_responses
          /\ _should_barge_in_cancel
          /\ now - last_cancel_ms >= DebounceMs )
        => ( /\ recv_active_response_id \in cancelled_response_ids'
             /\ NumCancels(sent') = NumCancels(sent) + 1
             /\ active_response_id' = None
             /\ recv_active_response_id' = None
             /\ pending_bytes(audio_out') = 0
             /\ epoch_to_turn' = EmptyMap ) ]_vars

\* C2: response.created(R) sets the active response the barge-in controller
\* observes, and response.done(R') clears it only when R' is that response.
C2_ControllerSeesActive ==
    [][ \A r \in ResponseIds :
          /\ RecvResponseCreated(r) => active_response_id' = r
          /\ RecvResponseDone(r) =>
                active_response_id' =
                    IF active_response_id = r THEN None
                    ELSE active_response_id ]_vars

\* C4: two cancellation attempts less than 400 ms apart, made while a
\* response is active, put exactly one response.cancel on the wire.
C4_DebouncedPairSendsOne ==
    (barge.outcome = "debounced" /\ barge.had_active) => barge.cancels = 1

\* ------------------------------------------------ claims on run (SupSpec)
RECURSIVE Pow2(_)
Pow2(k) == IF k <= 0 THEN 1 ELSE 2 * Pow2(k - 1)

AllReleased ==
    /\ in_stream \in {"none", "closed"}
    /\ cap \in {"none", "closed"}
    /\ pump_task # "running"
    /\ out_stream \in {"none", "closed"}
    /\ ws # "open"

\* C5: after a session that stayed up at least the minimum clean lifetime,
\* the delay before the next reconnect is the 0.5 s baseline, whatever the
\* number of failures before that session.
C5_CleanSessionResetsBackoff ==
    (/\ sup_pc = "sleeping"
     /\ ended_by \in {"failure", "rotation"}
     /\ age_s >= CleanLifetimeS)
        => sleep_ms = BaseBackoffMs

\* C6: a session that reached its maximum age is closed by the rotation
\* timer with code 1000, is not counted as a failure (no backoff sleep), and
\* the supervisor reconnects with the backoff still at 0.5 s.
C6_RotationIsNotAFailure ==
    ended_by = "rotation"
        => /\ close_code = RotationCode
           /\ sup_pc # "sleeping"
           /\ backoff_ms = BaseBackoffMs

\* C7 (as stated): in the backoff sleep after k consecutive failures the
\* supervisor sleeps min(0.5 * 2^k, 10) s.
C7_SleepAfterKFailures_Stated ==
    sup_pc = "sleeping"
        => sleep_ms = Min(BaseBackoffMs * Pow2(failures), MaxBackoffMs)

\* C7 (amended): the sleep after the k-th consecutive failure (k >= 1) is
\* min(0.5 * 2^(k-1), 10) s, that is 0.5, 1, 2, 4, 8, 10, 10, ...; the sleep
\* is the current backoff, and the backoff stays within [0.5 s, 10 s].
C7_SleepAfterKthFailure ==
    /\ backoff_ms >= BaseBackoffMs
    /\ backoff_ms <= MaxBackoffMs
    /\ sup_pc = "sleeping"
        => /\ failures >= 1
           /\ sleep_ms = backoff_ms
           /\ sleep_ms = Min(BaseBackoffMs * Pow2(failures - 1), MaxBackoffMs)

\* C7 witness: the sixth failure in a row sleeps the 10 s cap.
C7_Witness_CappedSleep ==
    /\ sup_pc = "sleeping"
    /\ failures = 6
    /\ sleep_ms = MaxBackoffMs

\* C8: once external cancellation was delivered the supervisor neither
\* sleeps in backoff nor attempts a new connection.
C8_CancelIsNeverRetried ==
    cancel = "delivered" => sup_pc \notin {"sleeping", "connecting"}

\* C9: when run_speech_loop has been left, whatever the path, the capture
\* source, the playback stream and the connection are released.
C9_ExitReleasesEverything ==
    loop_pc = "exited" => AllReleased

\* --------------------------------------- claims on the capture (CapSpec)
\* The bytes a base64 text stands for.
RECURSIVE b64decode(_)
b64decode(text) ==
    IF Len(text) < 4 THEN <<>>
    ELSE LET a == text[1]
             b == text[2]
             c == IF text[3] = Pad THEN 0 ELSE text[3]
             d == IF text[4] = Pad THEN 0 ELSE text[4]
             n == a * 262144 + b * 4096 + c * 64 + d
             three == <<n \div 65536, (n \div 256) % 256, n % 256>>
         IN  IF text[3] = Pad THEN <<three[1]>>
             ELSE IF text[4] = Pad THEN <<three[1], three[2]>>
             ELSE three \o b64decode(SubSeq(text, 5, Len(text)))

\* The converter state after the first n pulled chunks.
RECURSIVE StateAfter(_)
StateAfter(n) ==
    IF n = 0 THEN <<>>
    ELSE convert(cfg.source, pulled[n], StateAfter(n - 1)).state

\* The wire bytes of the i-th pulled chunk.
WireBytes(i) ==
    Pcm16Bytes(IF HasInConverter(cfg.source)
                 THEN convert(cfg.source, pulled[i], StateAfter(i - 1)).out
                 ELSE pulled[i])

\* C10: with the microphone and with the process loopback, get_chunk exists
\* and ends with the oldest queued chunk or with a timeout, and the sender
\* sends one input_audio_buffer.append per pulled chunk, in pull order,
\* carrying that chunk in the wire format.
C10_SenderAppendsEveryPulledChunk ==
    /\ last_pull \in {"none", "chunk", "timeout"}
    /\ sender_pc \in {"pull", "send"}
    /\ \A i \in 1..(Len(pulled) - 1) : pulled[i][1] < pulled[i + 1][1]
    /\ Len(appended) = Len(pulled) - (IF sender_pc = "send" THEN 1 ELSE 0)
    /\ \A i \in 1..Len(appended) : b64decode(appended[i]) = WireBytes(i)

\* ------------------------------------- claims on the sink (SinkSpec)
\* C11: in every reachable state of the sink, whatever the interleaving of
\* append_pcm16, flush and the device callback, the main buffer holds a whole
\* number of frames and the tail holds less than one frame.
C11_BufferFrameAligned ==
    /\ Len(audio_out.buf) % SinkFrameBytes = 0
    /\ Len(audio_out.tail) < SinkFrameBytes

\* C11 witness: an append left a remainder in the tail and whole frames in
\* the buffer while a device callback is between its two critical sections.
C11_Witness_TailAndCallback ==
    /\ sink_op.op = "append"
    /\ Len(audio_out.tail) = SinkFrameBytes - 1
    /\ Len(audio_out.buf) >= SinkFrameBytes
    /\ cb.pc = "took"

\* C12: append_pcm16 returns a newly issued play epoch if and only if that
\* append moved the main buffer from empty to non-empty, whatever the
\* interleaving with the device callback.
C12_EpochIffRefill ==
    sink_op.op = "append" => ((sink_op.ret # NoEpoch) <=> sink_op.refilled)

\* C13: flush returns the number of bytes that were buffered (buffer and
\* tail), leaves the buffer, the tail and the pending epoch empty, so that
\* pending_bytes() is 0, and every epoch issued after a flush is greater than
\* every epoch issued before it.
C13_FlushEmptiesAndSeparatesEpochs ==
    /\ sink_op.op = "flush"
         => /\ sink_op.ret = sink_op.pending
            /\ audio_out.buf = <<>>
            /\ audio_out.tail = <<>>
            /\ audio_out.awaiting_play_epoch = NoEpoch
            /\ pending_bytes(audio_out) = 0
    /\ \A a \in sink_op.issued_post :
           /\ a <= audio_out.play_epoch
           /\ \A b \in sink_op.issued_pre : a > b

\* C13 witness: a flush dropped a frame and a remainder, after an epoch had
\* been issued, while the device callback holds the epoch it has just read.
C13_Witness_FlushDroppedTail ==
    /\ sink_op.op = "flush"
    /\ sink_op.ret = SinkFrameBytes + 1
    /\ sink_op.issued_pre # {}
    /\ cb.pc = "read"

\* ------------------------------------ claims on the ledger (Spec)
\* C14: a play-start marker for an epoch issued before a barge-in flush sets
\* first_audio_played_ms on no turn once the flush has run, whether the epoch
\* was pending at the flush or its marker was already in flight.
C14_StaleMarkerSetsNothing ==
    [][(/\ PlayTracker
        /\ Head(audio_out.play_started_q) # NoEpoch
        /\ Head(audio_out.play_started_q) <= barge.flush_epoch)
           => turns' = turns]_vars

\* C14 witness: the observer has consumed a marker older than the flush while
\* a turn whose audio was appended after the flush waits for its own marker.
C14_Witness_StaleMarkerRetired ==
    /\ barge.stale_seen
    /\ \E e \in DOMAIN epoch_to_turn :
          /\ e > barge.flush_epoch
          /\ epoch_to_turn[e] \in DOMAIN turns
          /\ turns[epoch_to_turn[e]].first_audio_played_ms = NoneMs

\* A ledger field of turn T that holds a timestamp keeps it in the next state.
FieldKept(T, field) ==
    turns[T][field] # NoneMs =>
        /\ T \in DOMAIN turns'
        /\ turns'[T][field] = turns[T][field]

\* C15: each ledger field of every turn is written at most once: once
\* eos_proxy_ms, first_audio_delta_ms or first_audio_played_ms of a turn holds
\* a timestamp, no later event writes another value over it.
C15_LedgerFieldsWrittenOnce ==
    [][\A T \in DOMAIN turns :
          /\ FieldKept(T, "eos_proxy_ms")
          /\ FieldKept(T, "first_audio_delta_ms")
          /\ FieldKept(T, "first_audio_played_ms")]_vars

\* a <= b for two timestamps, read as true while either one is unset.
OrderedMs(a, b) == (a # NoneMs /\ b # NoneMs) => a <= b

\* C16: a turn whose first_audio_played_ms is set has its timestamps in the
\* order eos_proxy_ms <= first_audio_delta_ms <= first_audio_played_ms.
C16_LedgerOrdered ==
    \A T \in DOMAIN turns :
        turns[T].first_audio_played_ms # NoneMs =>
            /\ OrderedMs(turns[T].eos_proxy_ms, turns[T].first_audio_delta_ms)
            /\ OrderedMs(turns[T].first_audio_delta_ms,
                         turns[T].first_audio_played_ms)
            /\ OrderedMs(turns[T].eos_proxy_ms,
                         turns[T].first_audio_played_ms)

\* ------------------------------------------------ a clean turn (TurnSpec)
\* The "ttfa" records logged for turn T.
TtfaRecords(T) == {i \in 1..Len(ttfa_log) : ttfa_log[i].turn_id = T}

\* The first audio of T1 was appended to a sink that held no bytes.
CleanTurn ==
    /\ "T1" \in DOMAIN first_append
    /\ first_append["T1"].empty

\* C17: in a clean turn (speech_stopped(T1), then deltas of the non-cancelled
\* R1 for T1 whose first audio is appended to an empty sink, callbacks
\* running) exactly one ttfa record is eventually logged for T1, with
\* ttf_delta_ms >= 0 and ttfa_ms >= ttf_delta_ms, never a second one, and
\* the playback buffer is eventually drained.
C17_CleanTurnLogsOneTtfa ==
    /\ [](CleanTurn =>
            /\ Cardinality(TtfaRecords("T1")) <= 1
            /\ \A i \in TtfaRecords("T1") :
                  /\ ttfa_log[i].ttf_delta_ms >= 0
                  /\ ttfa_log[i].ttfa_ms >= ttfa_log[i].ttf_delta_ms)
    /\ CleanTurn ~> (Cardinality(TtfaRecords("T1")) = 1)
    /\ (CleanTurn /\ audio_out.buf # <<>>) ~> (audio_out.buf = <<>>)

\* ------------------------------------------------ capture queue (CapSpec)
\* C18: the capture queue never holds more than queue_max_chunks chunks; a
\* producer that finds it full removes exactly the oldest chunk, enqueues the
\* new one and adds one to the dropped counter; the counter never decreases
\* and does not move when nothing was dropped.
C18_DropOldestIsCounted ==
    /\ [](Len(q) <= QueueMaxChunks)
    /\ [][/\ dropped' >= dropped
          /\ produced' = produced + 1 =>
               LET new == Chunk(produced + 1, InChannels(cfg.source))
               IN  IF Len(q) = QueueMaxChunks
                     THEN /\ q' = Append(Tail(q), new)
                          /\ dropped' = dropped + 1
                     ELSE /\ q' = Append(q, new)
                          /\ dropped' = dropped]_vars

\* ---------------------------------------------- the converter (ConvSpec)
\* The chunks passed to convert so far, joined, and what the calls returned,
\* joined.
RECURSIVE ConvFed(_)
ConvFed(n) == IF n = 0 THEN <<>> ELSE ConvFed(n - 1) \o conv_calls[n].data

RECURSIVE ConvOut(_)
ConvOut(n) == IF n = 0 THEN <<>> ELSE ConvOut(n - 1) \o conv_calls[n].out

\* A converter with the fields of pcm_conv that has converted nothing yet.
FreshConverter == [pcm_conv EXCEPT !.state = <<>>]

\* C19: for a converter with supported channel counts, the outputs of the
\* convert calls on frame-aligned chunks a, b, joined, are what a fresh
\* converter returns for a ++ b, at equal and at different rates alike; with
\* equal rates and equal channel counts every call returns its input.
C19_StreamingConsistent ==
    (/\ pcm_conv.in_channels \in SupportedChannels
     /\ pcm_conv.out_channels \in SupportedChannels) =>
        /\ ConvOut(Len(conv_calls)) =
              PcmRateConverter_convert(FreshConverter,
                                       ConvFed(Len(conv_calls))).out
        /\ (/\ pcm_conv.in_channels = pcm_conv.out_channels
            /\ pcm_conv.in_sample_rate_hz = pcm_conv.out_sample_rate_hz) =>
               \A i \in 1..Len(conv_calls) :
                   conv_calls[i].out = conv_calls[i].data

\* C19 witness: a stereo-to-mono converter between different rates has
\* converted two non-empty chunks and the second call produced samples.
C19_Witness_TwoChunksResampled ==
    /\ pcm_conv.in_channels = 2
    /\ pcm_conv.out_channels = 1
    /\ pcm_conv.in_sample_rate_hz # pcm_conv.out_sample_rate_hz
    /\ Len(conv_calls) = 2
    /\ conv_calls[1].data # <<>>
    /\ conv_calls[1].out # <<>>
    /\ conv_calls[2].data # <<>>
    /\ conv_calls[2].out # <<>>

\* C20: a converter whose in_channels or out_channels is outside {1, 2}
\* raises on every convert call, whatever the input, and returns nothing.
C20_UnsupportedChannelsAlwaysRaise ==
    (\/ pcm_conv.in_channels \notin SupportedChannels
     \/ pcm_conv.out_channels \notin SupportedChannels) =>
        \A i \in 1..Len(conv_calls) : conv_calls[i].raised = "ValueError"

\* ------------------------------------------- outbound event ids (EvSpec)
\* C21: every outbound event carries an event_id different from the
\* event_id of every other outbound event of the session.
C21_EventIdsUnique ==
    \A i \in 1..Len(event_ids), j \in 1..Len(event_ids) :
        i # j => event_ids[i].event_id # event_ids[j].event_id

\* ------------------------------------------ configuration (SupSpec)
InvalidCfg ==
    \/ cfg.api_key = None
    \/ cfg.api_key = ""
    \/ cfg.source \notin CaptureSources

\* C22: with qwen.api_key missing, empty or not a string, or with an
\* unrecognised audio.input.source, run_speech_loop never gets past its
\* validation: it ends with ValueError, no device stream was ever opened and
\* no connection was ever attempted.
C22_InvalidConfigFailsFast ==
    InvalidCfg =>
        /\ loop_pc \in {"validate", "exited"}
        /\ loop_pc = "exited" => loop_exc = "ValueError"
        /\ in_stream = "none"
        /\ cap = "none"
        /\ pump_task = "none"
        /\ out_stream = "none"
        /\ ws = "none"
        /\ sup_pc = "none"

\* C22 witness: a usable key with an unknown source, rejected.
C22_Witness_UnknownSourceRejected ==
    /\ cfg.api_key = "sk-key"
    /\ cfg.source = "other"
    /\ loop_pc = "exited"
    /\ loop_exc = "ValueError"

\* ---- C23
RECURSIVE UttFrames(_)
UttFrames(utt) ==
    IF utt = <<>> THEN 0 ELSE Head(utt).frames + UttFrames(Tail(utt))

RECURSIVE UttPcm(_)
UttPcm(utt) == IF utt = <<>> THEN <<>> ELSE Head(utt).pcm \o UttPcm(Tail(utt))

\* The blocks of an utterance up to its last voiced one.
VoicedPrefix(utt) ==
    LET voiced == {i \in 1..Len(utt) : utt[i].speech}
    IN  IF voiced = {} THEN <<>>
        ELSE SubSeq(utt, 1, CHOOSE i \in voiced : \A j \in voiced : j <= i)

SegmenterIsIdle ==
    /\ ~vad.in_utt
    /\ vad.buf = <<>>
    /\ vad.frames_total = 0
    /\ vad.last_voice_frame = 0

\* C23: after every push, with the frame counts taken from the blocks pushed
\* since the utterance began: (a) a segment is returned only for an utterance
\* in progress whose frames since its last voiced block amount to at least
\* silence_duration_ms, or whose frames amount to at least max_utterance_ms;
\* (b) the segment's audio is the blocks up to the last voiced one and the
\* segmenter is idle again; (c) when the utterance stops with fewer voiced
\* frames than min_speech_duration_ms nothing is returned and the segmenter
\* is idle; (d) while no block has reached the energy threshold the segmenter
\* is idle and nothing has been returned.
C23_SegmentOnlyAfterSilenceOrMax ==
    vad_op.n > 0 =>
      LET utt     == vad_op.utt
          total   == UttFrames(utt)
          voicedF == UttFrames(VoicedPrefix(utt))
          silence == MsToFrames(vad.p.silence_duration_ms, vad.sr)
          minimum == MsToFrames(vad.p.min_speech_duration_ms, vad.sr)
          maximum == MsToFrames(vad.p.max_utterance_ms, vad.sr)
          stops   == \/ silence > 0 /\ total - voicedF >= silence
                     \/ maximum > 0 /\ total >= maximum
      IN  /\ vad_op.out # <<>> =>
                /\ utt # <<>>
                /\ \/ total - voicedF >= silence
                   \/ total >= maximum
                /\ vad_op.out[1].pcm = UttPcm(VoicedPrefix(utt))
                /\ SegmenterIsIdle
          /\ (utt # <<>> /\ stops /\ voicedF < minimum) =>
                vad_op.out = <<>> /\ SegmenterIsIdle
          /\ ~vad_op.voiced_ever =>
                SegmenterIsIdle /\ vad_op.emitted = 0 /\ vad_op.out = <<>>

\* A segment was cut after trailing silence and is shorter than what was
\* pushed since the utterance began.
C23_Witness_SegmentCutAtLastVoice ==
    /\ vad_op.out # <<>>
    /\ vad.p.silence_duration_ms > 0
    /\ Len(vad_op.out[1].pcm) < Len(UttPcm(vad_op.utt))
    /\ Len(vad_op.utt) >= 2

\* ---- C24
\* The last check found a call of the same tool allowed less than
\* 1 / calls_per_second seconds before it.
AllowedTooRecently ==
    /\ pol_op.tool \in DOMAIN pol_op.pre.rate_limiters
    /\ pol_op.last_allowed # <<>>
    /\ pol_op.at - pol_op.last_allowed[1]
          < pol_op.pre.rate_limiters[pol_op.tool].interval

\* C24: every check is rejected in the fixed order: ToolDisabledError exactly
\* when tools are disabled; otherwise ToolNotAllowedError exactly when the
\* whitelist is non-empty and does not list the tool; otherwise
\* ToolRateLimitedError exactly when a call of that tool was allowed less
\* than its interval earlier; a rejected check leaves the policy, and so
\* every next allowed time, as it was; any other check returns.
C24_RejectsInFixedOrder ==
    pol_op.done =>
      LET p        == pol_op.pre
          disabled == ~p.enabled
          unlisted == p.whitelist # {} /\ pol_op.tool \notin p.whitelist
          expected == IF disabled THEN "ToolDisabledError"
                      ELSE IF unlisted THEN "ToolNotAllowedError"
                      ELSE IF AllowedTooRecently THEN "ToolRateLimitedError"
                      ELSE ""
      IN  /\ pol_op.raised = expected
          /\ pol_op.raised # "" => policy = p

\* A call was rate limited, and a later call of the same tool, a full
\* interval after the allowed one, returned.
C24_Witness_AllowedAgainAfterInterval ==
    /\ pol_op.done
    /\ pol_op.raised = ""
    /\ pol_op.tool \in DOMAIN policy.rate_limiters
    /\ pol_op.last_allowed # <<>>
    /\ pol_op.at - pol_op.last_allowed[1]
          = policy.rate_limiters[pol_op.tool].interval
    /\ policy.whitelist # {}

\* ---- C25
\* C25: a speech_started received while the sink was not audible within the
\* last 400 ms and holds no pending bytes sends nothing and leaves the
\* cancelled set, the active response, the debounce timestamp, the sink with
\* its buffers, the alignment buffer and the epoch->turn map as they were.
C25_SilentSpeechStartedChangesNothing ==
    [][ ( /\ RecvSpeechStarted
          /\ ~is_audible(audio_out, now, AudibleWithinMs)
          /\ pending_bytes(audio_out) = 0 )
        => UNCHANGED <<sent, cancelled_response_ids, active_response_id,
                       recv_active_response_id, last_cancel_ms, audio_out,
                       pcm_tail, epoch_to_turn, turns>> ]_vars

\* A speech_started was let pass while a response was in progress and the
\* sink was silent and empty.
C25_Witness_SkippedWhileResponseActive ==
    /\ barge.outcome = "skipped"
    /\ open_responses # {}
    /\ ~_should_barge_in_cancel
    /\ NumCancels(sent) = 0

\* ---- C26
\* C26: the bytes the callbacks took from the buffer are bytes that were
\* appended, in the order of their appends, and every byte emitted since the
\* last flush returned was appended after that flush.
C26_OrderKeptAndFlushIsBarrier ==
    play_log.on =>
      LET e == play_log.emitted
      IN  /\ \A i \in 1..Len(e) :
                /\ e[i].n \in 1..play_log.serial
                /\ e[i] = play_log.appended[e[i].n]
          /\ \A i \in 1..(Len(e) - 1) : e[i].n < e[i + 1].n
          /\ \A i \in (play_log.flush_pos + 1)..Len(e) :
                e[i].n > play_log.flushed

\* Bytes were emitted, a flush dropped pending bytes, and bytes appended
\* after it were emitted too.
C26_Witness_EmittedAcrossFlush ==
    /\ play_log.on
    /\ play_log.flush_pos > 0
    /\ play_log.flushed > play_log.emitted[play_log.flush_pos].n
    /\ Len(play_log.emitted) > play_log.flush_pos

\* ---- C27
\* The largest multiple of the frame size not above min(want, available).
WholeFrames(want, available) ==
    CHOOSE k \in 0..want :
        /\ k % SinkFrameBytes = 0
        /\ k <= want /\ k <= available
        /\ \A m \in 0..want :
              (m % SinkFrameBytes = 0 /\ m <= want /\ m <= available)
                  => m <= k

\* C27: the last callback filled exactly the wanted number of bytes: the
\* first k are the oldest k bytes of the buffer as the callback found it, k
\* the largest multiple of the frame size not above min(wanted, available),
\* the buffer it left is the rest, and the other wanted - k bytes are zero.
C27_CallbackFillsWanted ==
    (play_log.on /\ play_log.want > 0) =>
      LET k == WholeFrames(play_log.want, Len(play_log.pre))
      IN  /\ Len(play_log.outdata) = play_log.want
          /\ SubSeq(play_log.outdata, 1, k) = SubSeq(play_log.pre, 1, k)
          /\ play_log.post = SubSeq(play_log.pre, k + 1, Len(play_log.pre))
          /\ \A i \in (k + 1)..play_log.want : play_log.outdata[i].v = 0

\* A callback found more than it wanted, and another less: it took whole
\* frames and filled the rest with zeros.
C27_Witness_PartialFill ==
    /\ play_log.on
    /\ play_log.want > Len(play_log.pre)
    /\ Len(play_log.pre) > 0
    /\ play_log.outdata[1].n > 0
    /\ play_log.outdata[play_log.want] = ZeroByte

\* ---- C28
\* C28: between callbacks, is_audible(within_ms) is true exactly when a
\* callback emitted a byte other than zero within the last within_ms.
C28_AudibleIffLoudBytesEmitted ==
    (play_log.on /\ cb.pc # "took") =>
      ( is_audible(audio_out, now, AudibleWithinMs)
          <=> ( /\ play_log.last_loud # NoneMs
                /\ now - play_log.last_loud <= AudibleWithinMs ) )

\* The marker is written by the callbacks that took bytes out of the
\* buffer, whatever their value, and by nothing else.
MarkerFollowsBufferedBytes ==
    [][ /\ CbMark => (cb.got > 0 /\ audio_out'.last_non_silent = now)
        /\ audio_out'.last_non_silent # audio_out.last_non_silent => CbMark
      ]_vars

\* ---- C29
\* C29: over the whole session at most one epoch is ever bound to a turn.
C29_OneEpochPerTurn ==
    \A item_id \in DOMAIN first_append :
        Cardinality(first_append[item_id].bound) <= 1

\* ---- C30
\* C30: after any sequence of audio deltas of responses that are not
\* cancelled, the blocks forwarded to the sink followed by the alignment
\* buffer are the decoded payloads in order; the alignment buffer holds less
\* than one wire frame; every forwarded block is a whole number of wire
\* frames; and a delta that completed no frame forwarded nothing.
C30_WholeFramesForwarded ==
    align_log.on =>
      LET frame == BytesPerSample * OutputChannels
      IN  /\ align_log.forwarded \o pcm_tail = align_log.decoded
          /\ Len(pcm_tail) < frame
          /\ align_log.last.sent % frame = 0
          /\ align_log.last.tail + align_log.last.raw < frame
                => align_log.last.sent = 0

\* A delta below one frame forwarded nothing, and a later one completed the
\* frame and left a remainder once more.
C30_Witness_RemainderCarried ==
    /\ align_log.on
    /\ align_log.last.tail > 0
    /\ align_log.last.sent > 0
    /\ pcm_tail # <<>>
    /\ Len(align_log.decoded) > Len(align_log.forwarded)

\* ---- C31
\* C31: after a delta of 7 bytes followed by a delta of 1 byte, the first
\* two messages of the session, exactly one warning
\* audio_wire_chunk_not_sample_aligned was recorded and exactly 8 bytes were
\* forwarded downstream.
C31_SevenThenOneWarnsOnce ==
    ( /\ align_log.on
      /\ received = 2
      /\ Len(align_log.decoded) = 8
      /\ align_log.last.raw = 1 )
        => (Warnings = 1 /\ Len(align_log.forwarded) = 8)

\* The two deltas forwarded 8 bytes between them.
SevenThenOneForwardsEight ==
    ( /\ align_log.on
      /\ received = 2
      /\ Len(align_log.decoded) = 8
      /\ align_log.last.raw = 1 )
        => Len(align_log.forwarded) = 8

RECURSIVE Concat(_)
Concat(chunks) ==
    IF chunks = <<>> THEN <<>> ELSE Head(chunks) \o Concat(Tail(chunks))

IsPrefix(s, t) == Len(s) <= Len(t) /\ s = SubSeq(t, 1, Len(s))

\* C32: the pump loses and reorders nothing: the raw remainder it carries is
\* the sub-frame tail of all raw input, every chunk it put on the queue holds
\* exactly frames_per_chunk whole PCM16 frames, the chunks put followed by the
\* bytes still buffered are the conversion of all raw input read so far (so
\* the chunks put are a prefix of it), and the queue holds the newest of the
\* chunks put, in order.
C32_PumpLosesAndReordersNothing ==
    LET whole == (Len(loop_log.raw) \div (4 * loop.channels))
                         * (4 * loop.channels)
        all == [pcm16 |-> F32ToPcm16(SubSeq(loop_log.raw, 1, whole)),
                tail |-> SubSeq(loop_log.raw, whole + 1, Len(loop_log.raw))]
        target_bytes == loop.frames_per_chunk * 2 * loop.channels
        put == loop_log.enqueued
    IN  /\ loop.raw_tail = all.tail
        /\ Len(loop.raw_tail) < 4 * loop.channels
        /\ \A i \in 1..Len(put) :
              /\ Len(put[i]) = target_bytes
              /\ Len(put[i]) % (2 * loop.channels) = 0
        /\ Concat(put) \o loop.buf = all.pcm16
        /\ IsPrefix(Concat(put), all.pcm16)
        /\ Len(loop.buf) < target_bytes
        /\ \E k \in 0..Len(put) :
              loop.q = SubSeq(put, k + 1, k + Len(loop.q))

\* A raw block ended inside a sample, the remainder was carried over, and a
\* chunk was put whose samples were completed by a later block.
C32_Witness_RemainderCarriedIntoChunk ==
    /\ loop_log.enqueued # <<>>
    /\ loop.raw_tail # <<>>
    /\ Len(loop_log.raw) % 4 # 0
    /\ \E i \in 1..Len(loop_log.enqueued) :
          \E j \in 1..Len(loop_log.enqueued[i]) :
              loop_log.enqueued[i][j].v = 16383
    /\ Len(loop_log.enqueued) > Len(loop.q) + loop_log.got

\* C33: at most one session is live: a connection is open or a task of the
\* group runs only inside _run_one_session; a connection is opened only
\* by run() when the previous connection is closed and none of the four tasks
\* of the previous session is still running; and once a task of the group has
\* failed none of the others is left running.
C33_OneLiveSession ==
    /\ [](/\ (ws = "open" \/ \E t \in TaskNames : tg[t] = "running")
              => sup_pc = "session"
          /\ (\E t \in TaskNames : tg[t] = "failed")
              => \A t \in TaskNames : tg[t] \in Finished)
    /\ [][ws' = "open" /\ ws # "open"
            => /\ sup_pc = "connecting"
               /\ ws \in {"none", "closed"}
               /\ \A t \in TaskNames : tg[t] \in Finished \cup {"none"}
               /\ \A t \in TaskNames : tg'[t] = "running"]_vars

\* run() is about to connect again after a session in which one task failed
\* and the group cancelled the three others.
C33_Witness_ReconnectAfterFailedTask ==
    /\ sup_pc = "connecting"
    /\ ws = "closed"
    /\ \E t \in TaskNames :
          /\ tg[t] = "failed"
          /\ \A u \in TaskNames \ {t} : tg[u] = "cancelled"

C35_LoggedEventsChangeNothing ==
    [][ info_log'.n = info_log.n + 1
        => /\ info_log'.typ \in OtherEventTypes
           /\ session' = "running"
           /\ UNCHANGED <<active_response_id, recv_active_response_id,
                          cancelled_response_ids, turns, epoch_to_turn,
                          pcm_tail, audio_out, last_cancel_ms, sent>> ]_vars

\* An error event was received while a response was open, a turn was in the
\* ledger and bound to an epoch, and B held audio; the session runs.
C35_Witness_ErrorDuringPlayback ==
    /\ info_log.typ = "error"
    /\ session = "running"
    /\ open_responses # {}
    /\ turns # EmptyMap
    /\ epoch_to_turn # EmptyMap
    /\ pending_bytes(audio_out) > 0

\* C36: well-formed events of known types are handled without raising in
\* any order of arrival: no handler ends the receive loop of a session, in
\* particular not response.done received before any response.created.
C36_KnownEventsNeverRaise == session = "running"

\* C37: after a barge-in flush every byte in B was decoded from a delta
\* received after the flush: no remainder of earlier audio is prepended.
C37_NoPreFlushBytesAfterFlush ==
    /\ \A i \in 1..Len(audio_out.buf) :
          audio_out.buf[i].n > align_log.cut.at
    /\ \A i \in 1..Len(audio_out.tail) :
          audio_out.tail[i].n > align_log.cut.at

\* C38: a speech_started received while the agent is speaking, past the
\* debounce window and with no response active (none open, none held by the
\* enclosing scope) still flushes B and clears the epoch->turn map, sends no
\* response.cancel and leaves the cancelled set unchanged.
C38_BargeInWithoutResponseFlushesOnly ==
    [][ ( /\ RecvSpeechStarted
          /\ _should_barge_in_cancel
          /\ now - last_cancel_ms >= DebounceMs
          /\ open_responses = {}
          /\ active_response_id = None )
        => ( /\ pending_bytes(audio_out') = 0
             /\ audio_out'.buf = <<>> /\ audio_out'.tail = <<>>
             /\ epoch_to_turn' = EmptyMap
             /\ last_cancel_ms' = now
             /\ sent' = sent
             /\ cancelled_response_ids' = cancelled_response_ids ) ]_vars

\* Such a barge-in has happened: audio of a turn was flushed with no
\* response open, nothing was cancelled and no response.cancel was sent.
C38_Witness_FlushedWithoutResponse ==
    /\ barge.outcome = "effective"
    /\ ~barge.had_active
    /\ barge.cancels = 0
    /\ barge.flush_epoch > 1
    /\ last_cancel_ms = now
    /\ turns # EmptyMap
    /\ epoch_to_turn = EmptyMap
    /\ pending_bytes(audio_out) = 0
    /\ NumCancels(sent) = 0
    /\ cancelled_response_ids = {}

\* C39: whenever first_audio_played_ms is set for a turn T, the callback
\* that raised the marker consumed had taken bytes of T from the buffer.
C39_FirstAudibleCreditedToPlayingTurn ==
    [][ \A T \in TurnIds :
          ( /\ T \in DOMAIN turns'
            /\ turns'[T].first_audio_played_ms # NoneMs
            /\ T \in DOMAIN turns => turns[T].first_audio_played_ms = NoneMs )
          => LET epoch == Head(audio_out.play_started_q)
             IN  /\ epoch \in DOMAIN play_log.marks.by_epoch
                 /\ T \in play_log.marks.by_epoch[epoch] ]_vars

\* C40: bytes are conserved in the playback sink: the bytes appended are the
\* bytes the callbacks emitted from the buffer, plus the bytes the flushes
\* returned, plus pending_bytes() (main buffer and tail).
C40_BytesConserved ==
    play_log.on =>
        /\ Len(play_log.appended) =
              Len(play_log.emitted) + play_log.dropped
                  + pending_bytes(audio_out)
        /\ pending_bytes(audio_out) = Len(audio_out.buf) + Len(audio_out.tail)

\* Bytes were emitted, a flush returned bytes of which one was in the tail,
\* and bytes appended later are pending, one of them in the tail.
C40_Witness_EmittedFlushedAndPending ==
    /\ play_log.on
    /\ Len(play_log.emitted) > 0
    /\ play_log.dropped % SinkFrameBytes = 1
    /\ Len(audio_out.buf) > 0
    /\ Len(audio_out.tail) = 1
    /\ Len(play_log.appended) = MaxPlayBytes

====
